---- MODULE Spec2Model ----
(***************************************************************************)
(* BentWookie request lifecycle engine: the entity store (db/queries.py),  *)
(* the phase engine (loop/phases.py), the request processor                *)
(* (loop/processor.py) and the daemon loop (loop/daemon.py).               *)
(*                                                                         *)
(* Text is modelled as a sequence of fragments; "x in text.lower()" is     *)
(* Contains(x, text).  Only the order of touched timestamps is observable  *)
(* (ORDER BY reqtouchts), so the column holds ranks: a write stamps a rank *)
(* above every stored one and touch_order renumbers.  The rate-limit       *)
(* cooldown is kept as the seconds it still has to run.                    *)
(***************************************************************************)
EXTENDS Integers, Sequences, FiniteSets, TLC

VARIABLES
    project,                \* table project: prjid -> row
    request,                \* table request: reqid -> row
    infrastructure,         \* table infrastructure, in rowid order
    request_infrastructure, \* table request_infrastructure, in rowid order
    learning,               \* table learning, in rowid order
    next_prjid,             \* next project rowid
    next_reqid,             \* next request rowid
    plan_md,                \* reqid -> contents of PLAN.md in its code directory
    rate_limited_for,       \* processor._rate_limited_until - time.time(), floor 0
    SDK_AVAILABLE,          \* processor.SDK_AVAILABLE
    api_key,                \* "ANTHROPIC_API_KEY" in os.environ
    settings,               \* data/settings.json
    status,                 \* BentWookieDaemon.status
    pc,                     \* position of the daemon loop
    cur,                    \* the request dict held by the daemon loop
    agent_result,           \* outcome of the awaited agent call
    success,                \* value process_request returned to the loop
    stepbacks,              \* history: reqid -> number of test -> dev returns
    PID_FILE,               \* daemon.PID_FILE: the pid in data/bentwookie.pid
    procs                   \* pid -> the process with that pid

vars == <<project, request, infrastructure, request_infrastructure, learning,
          next_prjid, next_reqid, plan_md, rate_limited_for,
          SDK_AVAILABLE, api_key, settings, status, pc, cur, agent_result,
          success, stepbacks, PID_FILE, procs>>

store == <<project, request, infrastructure, request_infrastructure, learning,
           next_prjid, next_reqid>>

(***************************************************************************)
(* Bounds of the model.                                                    *)
(***************************************************************************)
MaxProjects == 2
MaxRequests == 2
MaxInfra == 1
MaxReqInfra == 1
MaxPids == 4

(***************************************************************************)
(* Program constants.                                                      *)
(***************************************************************************)
MAX_TEST_RETRIES == 3
INITIAL_BACKOFF == 60
BENTWOOKIE_PROJECT_ID == 1
BUGFIX_PRIORITY == 3
DEFAULT_PRIORITY == 5
DAEMON_POLL_INTERVAL == 30

\* Python None in an integer column, and in a text column
NoneInt == -1
None == "None"

\* the process ids the operating system hands out
Pids == 1..MaxPids

\* no process has the pid
NoProcess == [at |-> "free", child |-> NoneInt]

\* the PID marker and the processes around it are followed in SpecPid only
NoProcesses == [p \in Pids |-> NoProcess]

STATUS_TBD == "tbd"
STATUS_WIP == "wip"
STATUS_DONE == "done"
STATUS_ERR == "err"
STATUS_TMOUT == "tmout"

V2_STATUSES == {STATUS_TBD, STATUS_WIP, STATUS_DONE, STATUS_ERR, STATUS_TMOUT}

AUTH_MODE_API == "api"
AUTH_MODE_MAX == "max"

PHASES == <<"plan", "dev", "test", "deploy", "verify", "document", "commit", "complete">>

PHASE_ORDER(p) == (CHOOSE i \in 1..Len(PHASES) : PHASES[i] = p) - 1

\* faulty variant: the table leaves the commit phase out
NEXT_PHASE_document_to_complete(p) ==
    CASE p = "plan" -> "dev"
      [] p = "dev" -> "test"
      [] p = "test" -> "deploy"
      [] p = "deploy" -> "verify"
      [] p = "verify" -> "document"
      [] p = "document" -> "complete"
      [] p = "commit" -> "complete"
      [] OTHER -> None

\* faulty variant: the table sends verify past document
NEXT_PHASE_verify_to_commit(p) ==
    CASE p = "plan" -> "dev"
      [] p = "dev" -> "test"
      [] p = "test" -> "deploy"
      [] p = "deploy" -> "verify"
      [] p = "verify" -> "commit"
      [] p = "document" -> "commit"
      [] p = "commit" -> "complete"
      [] OTHER -> None

\* faulty variant: the table sends dev back to plan
NEXT_PHASE_dev_to_plan(p) ==
    CASE p = "plan" -> "dev"
      [] p = "dev" -> "plan"
      [] p = "test" -> "deploy"
      [] p = "deploy" -> "verify"
      [] p = "verify" -> "document"
      [] p = "document" -> "commit"
      [] p = "commit" -> "complete"
      [] OTHER -> None

NEXT_PHASE(p) ==
    CASE p = "plan" -> "dev"
      [] p = "dev" -> "test"
      [] p = "test" -> "deploy"
      [] p = "deploy" -> "verify"
      [] p = "verify" -> "document"
      [] p = "document" -> "commit"
      [] p = "commit" -> "complete"
      [] OTHER -> None

(***************************************************************************)
(* Text.                                                                   *)
(***************************************************************************)
Lower(frag) ==
    CASE frag = "Overloaded" -> "overloaded"
      [] frag = "Localhost" -> "localhost"
      [] frag = "API" -> "api"
      [] OTHER -> frag

\* the fragments of which sub is a substring
Within(sub) ==
    CASE sub = "local" -> {"local", "localhost"}
      [] OTHER -> {sub}

Contains(sub, text) == \E i \in 1..Len(text) : Lower(text[i]) \in Within(sub)

Min(a, b) == IF a < b THEN a ELSE b

Max(a, b) == IF a > b THEN a ELSE b

(***************************************************************************)
(* Entity store (db/queries.py).  A command that raises leaves the store   *)
(* unchanged (connection.get_db rolls back) and is modelled by ok = FALSE. *)
(***************************************************************************)
NoError == [text |-> None, phase |-> None, count |-> 0, msg |-> <<>>]

\* request.prjid REFERENCES project(prjid), enforced by PRAGMA foreign_keys = ON
fk_project(prj, prjid) == prjid \in DOMAIN prj

create_project(prj, prjid, prjcommitenabled) ==
    prjid :> [prjcommitenabled |-> prjcommitenabled] @@ prj

\* faulty variant: the row is inserted whatever project id it names
create_request_unchecked(req, prj, reqid, prjid, reqtype, reqstatus, reqphase, reqpriority, reqcommitenabled, ts) ==
    [ok |-> TRUE,
     request |-> reqid :> [prjid |-> prjid, reqtype |-> reqtype,
                           reqstatus |-> reqstatus, reqphase |-> reqphase,
                           reqpriority |-> reqpriority, reqtestretries |-> 0,
                           reqerror |-> NoError, reqtouchts |-> ts,
                           reqcommitenabled |-> reqcommitenabled] @@ req]

create_request(req, prj, reqid, prjid, reqtype, reqstatus, reqphase, reqpriority, reqcommitenabled, ts) ==
    IF fk_project(prj, prjid)
    THEN [ok |-> TRUE,
          request |-> reqid :> [prjid |-> prjid, reqtype |-> reqtype,
                                reqstatus |-> reqstatus, reqphase |-> reqphase,
                                reqpriority |-> reqpriority, reqtestretries |-> 0,
                                reqerror |-> NoError, reqtouchts |-> ts,
                                reqcommitenabled |-> reqcommitenabled] @@ req]
    ELSE [ok |-> FALSE, request |-> req]

\* faulty variant: ORDER BY r.reqtouchts ASC, r.reqpriority ASC
get_next_request_oldest_first(req, prj) ==
    {r \in DOMAIN req :
        /\ req[r].prjid \in DOMAIN prj
        /\ req[r].reqstatus = STATUS_TBD
        /\ \A o \in DOMAIN req :
              (req[o].prjid \in DOMAIN prj /\ req[o].reqstatus = STATUS_TBD) =>
                 \/ req[r].reqtouchts < req[o].reqtouchts
                 \/ /\ req[r].reqtouchts = req[o].reqtouchts
                    /\ req[r].reqpriority <= req[o].reqpriority}

\* WHERE r.reqstatus = 'tbd' ORDER BY r.reqpriority ASC, r.reqtouchts ASC LIMIT 1;
\* rows that tie on both keys may come back in either order
get_next_request(req, prj) ==
    {r \in DOMAIN req :
        /\ req[r].prjid \in DOMAIN prj
        /\ req[r].reqstatus = STATUS_TBD
        /\ \A o \in DOMAIN req :
              (req[o].prjid \in DOMAIN prj /\ req[o].reqstatus = STATUS_TBD) =>
                 \/ req[r].reqpriority < req[o].reqpriority
                 \/ /\ req[r].reqpriority = req[o].reqpriority
                    /\ req[r].reqtouchts <= req[o].reqtouchts}

\* faulty variant: an update writes a timestamp that is not later than the stored ones
now_ts_not_advancing(req) == 1

\* datetime.now(): later than every stored timestamp
now_ts(req) == 1 + Cardinality({req[r].reqtouchts : r \in DOMAIN req})

\* DEFAULT CURRENT_TIMESTAMP (whole seconds): may tie with the latest stored one
current_timestamp(req) == Max(1, Cardinality({req[r].reqtouchts : r \in DOMAIN req}))

\* timestamps as ranks 1..k, order and ties kept
touch_order(req) ==
    [r \in DOMAIN req |->
        [req[r] EXCEPT !.reqtouchts =
            1 + Cardinality({req[o].reqtouchts : o \in
                               {x \in DOMAIN req : req[x].reqtouchts < req[r].reqtouchts}})]]

update_request_status(req, reqid, st, ts) ==
    IF reqid \in DOMAIN req
    THEN [req EXCEPT ![reqid].reqstatus = st, ![reqid].reqtouchts = ts]
    ELSE req

update_request_error(req, reqid, error, ts) ==
    IF reqid \in DOMAIN req
    THEN [req EXCEPT ![reqid].reqerror = error, ![reqid].reqtouchts = ts]
    ELSE req

update_request_phase(req, reqid, phase, ts) ==
    IF reqid \in DOMAIN req
    THEN [req EXCEPT ![reqid].reqphase = phase, ![reqid].reqtouchts = ts]
    ELSE req

\* faulty variant: the UPDATE touches the row but loses the increment
increment_request_test_retries_lost(req, reqid, ts) ==
    IF reqid \in DOMAIN req
    THEN [req EXCEPT ![reqid].reqtouchts = ts]
    ELSE req

increment_request_test_retries(req, reqid, ts) ==
    IF reqid \in DOMAIN req
    THEN [req EXCEPT ![reqid].reqtestretries = @ + 1, ![reqid].reqtouchts = ts]
    ELSE req

reset_request_test_retries(req, reqid, ts) ==
    IF reqid \in DOMAIN req
    THEN [req EXCEPT ![reqid].reqtestretries = 0, ![reqid].reqtouchts = ts]
    ELSE req

\* ON DELETE CASCADE from request to request_infrastructure
cascade_request_infrastructure(rinf, req) ==
    LET Keep(row) == row.reqid \in DOMAIN req IN SelectSeq(rinf, Keep)

\* faulty variant: the rows of request_infrastructure are left behind
delete_project_keeps_overrides(st, prjid) ==
    LET KeepL(row) == row.prjid # prjid
    IN [project |-> [p \in DOMAIN st.project \ {prjid} |-> st.project[p]],
        request |-> [r \in {x \in DOMAIN st.request : st.request[x].prjid # prjid}
                       |-> st.request[r]],
        infrastructure |-> SelectSeq(st.infrastructure, KeepL),
        request_infrastructure |-> st.request_infrastructure,
        learning |-> SelectSeq(st.learning, KeepL)]

delete_project(st, prjid) ==
    LET KeepL(row) == row.prjid # prjid
        req == [r \in {x \in DOMAIN st.request : st.request[x].prjid # prjid}
                  |-> st.request[r]]
    IN [project |-> [p \in DOMAIN st.project \ {prjid} |-> st.project[p]],
        request |-> req,
        infrastructure |-> SelectSeq(st.infrastructure, KeepL),
        request_infrastructure |->
            cascade_request_infrastructure(st.request_infrastructure, req),
        learning |-> SelectSeq(st.learning, KeepL)]

\* faulty variant: the infrastructure of the project goes with the request
delete_request_with_infrastructure(st, reqid) ==
    LET KeepR(row) == row.reqid # reqid
        KeepP(row) == reqid \notin DOMAIN st.request \/ row.prjid # st.request[reqid].prjid
    IN [project |-> st.project,
        request |-> [r \in DOMAIN st.request \ {reqid} |-> st.request[r]],
        infrastructure |-> SelectSeq(st.infrastructure, KeepP),
        request_infrastructure |-> SelectSeq(st.request_infrastructure, KeepR),
        learning |-> st.learning]

\* queries.py 474-487
delete_request(st, reqid) ==
    LET KeepR(row) == row.reqid # reqid
    IN [project |-> st.project,
        request |-> [r \in DOMAIN st.request \ {reqid} |-> st.request[r]],
        infrastructure |-> st.infrastructure,
        request_infrastructure |-> SelectSeq(st.request_infrastructure, KeepR),
        learning |-> st.learning]

add_infrastructure(inf, prj, prjid, inftype, infprovider, infval) ==
    IF fk_project(prj, prjid)
    THEN Append(inf, [prjid |-> prjid, inftype |-> inftype,
                      infprovider |-> infprovider, infval |-> infval])
    ELSE inf

add_request_infrastructure(rinf, req, reqid, inftype, infprovider, infval) ==
    IF reqid \in DOMAIN req
    THEN Append(rinf, [reqid |-> reqid, inftype |-> inftype,
                       infprovider |-> infprovider, infval |-> infval])
    ELSE rinf

get_project_infrastructure(inf, prjid) ==
    LET Keep(row) == row.prjid = prjid IN SelectSeq(inf, Keep)

get_request_infrastructure(rinf, reqid) ==
    LET Keep(row) == row.reqid = reqid IN SelectSeq(rinf, Keep)

\* faulty variant: project rows are applied after the request's overrides
get_effective_infrastructure_project_wins(req, inf, rinf, reqid) ==
    IF reqid \notin DOMAIN req
    THEN <<>>
    ELSE LET pi == get_project_infrastructure(inf, req[reqid].prjid)
             ri == get_request_infrastructure(rinf, reqid)
             Tag(rows, src) == [i \in 1..Len(rows) |->
                                  [inftype |-> rows[i].inftype,
                                   infprovider |-> rows[i].infprovider,
                                   infval |-> rows[i].infval,
                                   source |-> src]]
             all == Tag(ri, "request") \o Tag(pi, "project")
             Last(i) == \A j \in (i+1)..Len(all) : all[j].inftype # all[i].inftype
             kept == SelectSeq([i \in 1..Len(all) |-> i], Last)
         IN [k \in 1..Len(kept) |-> all[kept[k]]]

\* the last row of a type wins, and request rows are applied after project rows
get_effective_infrastructure(req, inf, rinf, reqid) ==
    IF reqid \notin DOMAIN req
    THEN <<>>
    ELSE LET pi == get_project_infrastructure(inf, req[reqid].prjid)
             ri == get_request_infrastructure(rinf, reqid)
             Tag(rows, src) == [i \in 1..Len(rows) |->
                                  [inftype |-> rows[i].inftype,
                                   infprovider |-> rows[i].infprovider,
                                   infval |-> rows[i].infval,
                                   source |-> src]]
             all == Tag(pi, "project") \o Tag(ri, "request")
             Last(i) == \A j \in (i+1)..Len(all) : all[j].inftype # all[i].inftype
             kept == SelectSeq([i \in 1..Len(all) |-> i], Last)
         IN [k \in 1..Len(kept) |-> all[kept[k]]]

\* learning.prjid REFERENCES project(prjid); -1 (global) is exempt
add_learning(lrn, prj, prjid, lrndesc) ==
    IF prjid = -1 \/ fk_project(prj, prjid)
    THEN [ok |-> TRUE, learning |-> Append(lrn, [prjid |-> prjid, lrndesc |-> lrndesc])]
    ELSE [ok |-> FALSE, learning |-> lrn]

(***************************************************************************)
(* Settings (settings.py).                                                 *)
(***************************************************************************)
DEFAULT_SETTINGS ==
    [auth_mode |-> AUTH_MODE_MAX, poll_interval |-> DAEMON_POLL_INTERVAL,
     loop_paused |-> FALSE, max_iterations |-> 0]

get_auth_mode(sett) == sett.auth_mode

get_poll_interval(sett) == sett.poll_interval

\* faulty variant: the pause flag is not read
is_loop_paused_ignored(sett) == FALSE

is_loop_paused(sett) == sett.loop_paused

get_max_iterations(sett) == sett.max_iterations

\* the global commit switch, enabled unless the settings file says otherwise
get_commit_enabled(sett) ==
    IF "commit_enabled" \in DOMAIN sett THEN sett.commit_enabled ELSE TRUE

(***************************************************************************)
(* Phase engine (loop/phases.py).                                          *)
(***************************************************************************)
\* faulty variant: a request without infrastructure is not local
is_local_only_needs_infrastructure(req, inf, rinf, reqid) ==
    LET effective_infra == get_effective_infrastructure(req, inf, rinf, reqid)
    IN /\ Len(effective_infra) > 0
       /\ \A i \in 1..Len(effective_infra) :
             ~ (/\ Lower(effective_infra[i].infprovider) # "local"
                /\ ~ Contains("local", effective_infra[i].infval))

is_local_only(req, inf, rinf, reqid) ==
    LET effective_infra == get_effective_infrastructure(req, inf, rinf, reqid)
    IN \A i \in 1..Len(effective_infra) :
          ~ (/\ Lower(effective_infra[i].infprovider) # "local"
             /\ ~ Contains("local", effective_infra[i].infval))

\* request.get("prjcommitenabled") on a row of SELECT * FROM request
row_prjcommitenabled(row) == NoneInt

\* faulty variant: without any override the commit phase is skipped
get_next_phase_commit_opt_in(current_phase, reqid, req, inf, rinf, sett) ==
    LET next_phase == NEXT_PHASE(current_phase) IN
    IF reqid # NoneInt /\ next_phase \in {"deploy", "verify"}
       /\ is_local_only(req, inf, rinf, reqid)
    THEN "document"
    ELSE IF reqid # NoneInt /\ next_phase = "commit" /\ reqid \in DOMAIN req
    THEN IF req[reqid].reqcommitenabled = 0 THEN "complete"
         ELSE IF req[reqid].reqcommitenabled = 2 THEN "commit"
         ELSE IF "commit_enabled" \in DOMAIN sett /\ get_commit_enabled(sett)
              THEN next_phase ELSE "complete"
    ELSE next_phase

\* faulty variant: the global default is consulted before the request override
get_next_phase_global_first(current_phase, reqid, req, inf, rinf, sett) ==
    LET next_phase == NEXT_PHASE(current_phase) IN
    IF reqid # NoneInt /\ next_phase \in {"deploy", "verify"}
       /\ is_local_only(req, inf, rinf, reqid)
    THEN "document"
    ELSE IF reqid # NoneInt /\ next_phase = "commit" /\ reqid \in DOMAIN req
    THEN IF ~ get_commit_enabled(sett) THEN "complete"
         ELSE IF req[reqid].reqcommitenabled = 0 THEN "complete"
         ELSE next_phase
    ELSE next_phase

get_next_phase(current_phase, reqid, req, inf, rinf, sett) ==
    LET next_phase == NEXT_PHASE(current_phase) IN
    IF reqid # NoneInt /\ next_phase \in {"deploy", "verify"}
       /\ is_local_only(req, inf, rinf, reqid)
    THEN "document"
    ELSE IF reqid # NoneInt /\ next_phase = "commit" /\ reqid \in DOMAIN req
    THEN IF req[reqid].reqcommitenabled = 0 THEN "complete"
         ELSE IF req[reqid].reqcommitenabled = 2 THEN "commit"
         ELSE IF row_prjcommitenabled(req[reqid]) # NoneInt
              THEN IF row_prjcommitenabled(req[reqid]) = 0 THEN "complete"
                   ELSE next_phase
              ELSE IF ~ get_commit_enabled(sett) THEN "complete" ELSE next_phase
    ELSE next_phase

(***************************************************************************)
(* Request processor (loop/processor.py).                                  *)
(***************************************************************************)
\* faulty variant: the guard never reports a cooldown
is_rate_limited_never == FALSE

is_rate_limited == rate_limited_for > 0

get_rate_limit_wait == Max(0, rate_limited_for)

RateLimitIndicators ==
    {"rate limit", "rate_limit", "ratelimit", "429", "too many requests",
     "overloaded", "capacity"}

_is_rate_limit_error(error_msg) ==
    \E indicator \in RateLimitIndicators : Contains(indicator, error_msg)

ErrorText(text, phase, count, msg) ==
    [text |-> text, phase |-> phase, count |-> count, msg |-> msg]

\* faulty variant: the credits category records no text
friendly_error_credits_blank(error_msg, phase) ==
    IF Contains("credit", error_msg) \/ Contains("balance", error_msg)
       \/ Contains("billing", error_msg)
    THEN NoError
    ELSE IF Contains("exit code 1", error_msg) \/ Contains("command failed", error_msg)
    THEN ErrorText("Claude CLI returned an error", None, 0, <<>>)
    ELSE IF Contains("api", error_msg) \/ Contains("key", error_msg)
            \/ Contains("auth", error_msg)
    THEN ErrorText("Authentication error", None, 0, error_msg)
    ELSE ErrorText("Error in phase", phase, 0, error_msg)

friendly_error(error_msg, phase) ==
    IF Contains("credit", error_msg) \/ Contains("balance", error_msg)
       \/ Contains("billing", error_msg)
    THEN ErrorText("Insufficient credits", None, 0, <<>>)
    ELSE IF Contains("exit code 1", error_msg) \/ Contains("command failed", error_msg)
    THEN ErrorText("Claude CLI returned an error", None, 0, <<>>)
    ELSE IF Contains("api", error_msg) \/ Contains("key", error_msg)
            \/ Contains("auth", error_msg)
    THEN ErrorText("Authentication error", None, 0, error_msg)
    ELSE ErrorText("Error in phase", phase, 0, error_msg)

\* faulty variant: a rejected bug-fix request rolls back the recorded failure
_create_bugfix_request_rolls_back(req, prj, reqid, ts) ==
    IF fk_project(prj, BENTWOOKIE_PROJECT_ID)
    THEN create_request(req, prj, reqid, BENTWOOKIE_PROJECT_ID, "bug_fix", STATUS_TBD,
                        "plan", BUGFIX_PRIORITY, NoneInt, ts).request
    ELSE request

\* faulty variant: the bug-fix request is filed at the default priority
_create_bugfix_request_default_priority(req, prj, reqid, ts) ==
    create_request(req, prj, reqid, BENTWOOKIE_PROJECT_ID, "bug_fix", STATUS_TBD,
                   "plan", DEFAULT_PRIORITY, NoneInt, ts).request

\* queries.create_request inside try/except: a failure is logged and swallowed
_create_bugfix_request(req, prj, reqid, ts) ==
    create_request(req, prj, reqid, BENTWOOKIE_PROJECT_ID, "bug_fix", STATUS_TBD,
                   "plan", BUGFIX_PRIORITY, NoneInt, ts).request

\* faulty variant: the request is marked without clearing its error text
mark_wip_keeps_error(req, reqid, ts) ==
    update_request_status(req, reqid, STATUS_WIP, ts)

\* processor.py 281-283
mark_wip(req, reqid, ts) ==
    update_request_status(update_request_error(req, reqid, NoError, ts),
                          reqid, STATUS_WIP, ts)

\* processor.py 288-289 and 306-307
fail_precondition(req, reqid, error, ts) ==
    update_request_status(update_request_error(req, reqid, error, ts),
                          reqid, STATUS_ERR, ts)

\* faulty variant: a timed-out request is put back in the queue
fail_timeout_requeued(req, reqid, phase, ts) ==
    update_request_status(
        update_request_error(req, reqid, ErrorText("Timed out in phase", phase, 0, <<>>), ts),
        reqid, STATUS_TBD, ts)

\* faulty variant: the timeout is described but the status is not recorded
fail_timeout_status_forgotten(req, reqid, phase, ts) ==
    update_request_error(req, reqid, ErrorText("Timed out in phase", phase, 0, <<>>), ts)

\* processor.py 425-428
fail_timeout(req, reqid, phase, ts) ==
    update_request_status(
        update_request_error(req, reqid, ErrorText("Timed out in phase", phase, 0, <<>>), ts),
        reqid, STATUS_TMOUT, ts)

\* faulty variant: the status written at the start of the dispatch is kept
requeue_rate_limited_status_kept(req, reqid, ts) == req

\* faulty variant: a rate-limited request is failed like any other error
requeue_rate_limited_as_error(req, reqid, ts) ==
    update_request_status(
        update_request_error(req, reqid, ErrorText("Error in phase", None, 0, <<>>), ts),
        reqid, STATUS_ERR, ts)

\* processor.py 445
requeue_rate_limited(req, reqid, ts) ==
    update_request_status(req, reqid, STATUS_TBD, ts)

\* processor.py 463-464
fail_error(req, reqid, error_msg, phase, ts) ==
    update_request_status(
        update_request_error(req, reqid, friendly_error(error_msg, phase), ts),
        reqid, STATUS_ERR, ts)

\* faulty variant: the cap allows one step back too many
tests_exhausted_off_by_one(retry_count) == retry_count > MAX_TEST_RETRIES

\* processor.py 372
tests_exhausted(retry_count) == retry_count >= MAX_TEST_RETRIES

\* processor.py 379-380
fail_tests_exhausted(req, reqid, error_count, ts) ==
    update_request_status(
        update_request_error(req, reqid,
            ErrorText("Max test retries exceeded", None, error_count, <<>>), ts),
        reqid, STATUS_ERR, ts)

\* faulty variant: the request steps back without counting the retry
retry_tests_uncounted(req, reqid, ts) ==
    update_request_status(update_request_phase(req, reqid, "dev", ts),
                          reqid, STATUS_TBD, ts)

\* processor.py 398-400
retry_tests(req, reqid, ts) ==
    update_request_status(
        update_request_phase(increment_request_test_retries(req, reqid, ts),
                             reqid, "dev", ts),
        reqid, STATUS_TBD, ts)

\* faulty variant: a stale counter survives a clean test pass
tests_passed_counter_kept(req, reqid, reqtestretries, ts) == req

\* processor.py 406-407
tests_passed(req, reqid, reqtestretries, ts) ==
    IF reqtestretries # 0 THEN reset_request_test_retries(req, reqid, ts) ELSE req

\* faulty variant: the last phase is requeued instead of closed
advance_phase_requeue_complete(req, reqid, next_phase, ts) ==
    update_request_status(
        update_request_phase(req, reqid,
            IF next_phase # None THEN next_phase ELSE "complete", ts),
        reqid, STATUS_TBD, ts)

\* faulty variant: the last phase is closed without recording phase complete
advance_phase_closes_in_place(req, reqid, next_phase, ts) ==
    IF next_phase # None /\ next_phase # "complete"
    THEN update_request_status(update_request_phase(req, reqid, next_phase, ts),
                               reqid, STATUS_TBD, ts)
    ELSE update_request_status(req, reqid, STATUS_DONE, ts)

\* processor.py 412-420
advance_phase(req, reqid, next_phase, ts) ==
    IF next_phase # None /\ next_phase # "complete"
    THEN update_request_status(update_request_phase(req, reqid, next_phase, ts),
                               reqid, STATUS_TBD, ts)
    ELSE update_request_status(update_request_phase(req, reqid, "complete", ts),
                               reqid, STATUS_DONE, ts)

\* _generate_error_fix_plan: PLAN.md of the code directory is rewritten
_generate_error_fix_plan(docs, code_dir, error_count) ==
    (code_dir :> [title |-> "Error Fix Plan", error_count |-> error_count]) @@ docs

(***************************************************************************)
(* Inputs.                                                                 *)
(***************************************************************************)
PriorityChoices == {1, DEFAULT_PRIORITY}

\* queries.create_request: reqphase defaults to plan
StartPhases == {"plan"}

\* queries.create_request leaves the commit override unset
CommitChoices == {NoneInt}

ProjectInfraChoices ==
    {[inftype |-> "compute", infprovider |-> "aws", infval |-> <<"lambda">>]}

RequestInfraChoices ==
    {[inftype |-> "compute", infprovider |-> "local", infval |-> <<>>]}

ErrorMsgs == {<<"Overloaded">>, <<"API", "429">>, <<"agent failed">>}

\* SDK importable, auth mode, API key in the environment
Environments ==
    {<<TRUE, AUTH_MODE_MAX, TRUE>>, <<TRUE, AUTH_MODE_API, FALSE>>,
     <<FALSE, AUTH_MODE_MAX, TRUE>>}

NoRequest == [reqid |-> 0, prjid |-> 0, reqphase |-> None, reqtestretries |-> 0]

NoResult == [kind |-> None, msg |-> <<>>, found |-> FALSE, error_count |-> 0]

\* what the awaited agent call can produce: a timeout, an exception with a
\* message, or a response with or without a test report
AgentOutcomes ==
    {[kind |-> "timeout", msg |-> <<>>, found |-> FALSE, error_count |-> 0]}
    \cup {[kind |-> "error", msg |-> m, found |-> FALSE, error_count |-> 0] :
              m \in ErrorMsgs}
    \cup {[kind |-> "ok", msg |-> <<>>, found |-> FALSE, error_count |-> 0],
          [kind |-> "ok", msg |-> <<>>, found |-> TRUE, error_count |-> 0],
          [kind |-> "ok", msg |-> <<>>, found |-> TRUE, error_count |-> 2]}

(***************************************************************************)
(* Initial state: an empty store and a constructed daemon.                 *)
(***************************************************************************)
\* the statistics counters of DaemonStatus are not part of the state
DaemonStatus ==
    [running |-> FALSE, current_request_id |-> NoneInt, current_phase |-> None]

Init ==
    /\ project = <<>>
    /\ request = <<>>
    /\ infrastructure = <<>>
    /\ request_infrastructure = <<>>
    /\ learning = <<>>
    /\ next_prjid = 1
    /\ next_reqid = 1
    /\ plan_md = <<>>
    /\ rate_limited_for = 0
    /\ \E e \in Environments :
          /\ SDK_AVAILABLE = e[1]
          /\ settings = [DEFAULT_SETTINGS EXCEPT !.auth_mode = e[2]]
          /\ api_key = e[3]
    /\ status = DaemonStatus
    /\ pc = "init"
    /\ cur = NoRequest
    /\ agent_result = NoResult
    /\ success = None
    /\ stepbacks = <<>>
    /\ PID_FILE = NoneInt
    /\ procs = NoProcesses

(***************************************************************************)
(* Operator commands (cli.py, web/app.py).                                 *)
(***************************************************************************)
\* operator commands are issued before the daemon is started
Quiet == pc = "init"

CreateProject(prjcommitenabled) ==
    /\ Quiet
    /\ next_prjid <= MaxProjects
    /\ project' = create_project(project, next_prjid, prjcommitenabled)
    /\ next_prjid' = next_prjid + 1
    /\ UNCHANGED <<request, infrastructure, request_infrastructure, learning,
                   next_reqid, plan_md, rate_limited_for, SDK_AVAILABLE,
                   api_key, settings, status, pc, cur, agent_result, success, stepbacks>>
    /\ UNCHANGED <<PID_FILE, procs>>

CreateRequest(prjid, reqpriority, reqphase, reqcommitenabled) ==
    /\ Quiet
    /\ next_reqid <= MaxRequests
    /\ LET res == create_request(request, project, next_reqid, prjid, "new_feature",
                                 STATUS_TBD, reqphase, reqpriority,
                                 reqcommitenabled, current_timestamp(request))
       IN /\ res.ok
          /\ request' = touch_order(res.request)
    /\ next_reqid' = next_reqid + 1
    /\ stepbacks' = (next_reqid :> 0) @@ stepbacks
    /\ UNCHANGED <<project, infrastructure, request_infrastructure, learning,
                   next_prjid, plan_md, rate_limited_for, SDK_AVAILABLE,
                   api_key, settings, status, pc, cur, agent_result, success>>
    /\ UNCHANGED <<PID_FILE, procs>>

DeleteProject(prjid) ==
    /\ Quiet
    /\ prjid \in DOMAIN project
    /\ LET st == delete_project([project |-> project, request |-> request,
                                 infrastructure |-> infrastructure,
                                 request_infrastructure |-> request_infrastructure,
                                 learning |-> learning], prjid)
       IN /\ project' = st.project
          /\ request' = touch_order(st.request)
          /\ infrastructure' = st.infrastructure
          /\ request_infrastructure' = st.request_infrastructure
          /\ learning' = st.learning
    /\ UNCHANGED <<next_prjid, next_reqid, plan_md, rate_limited_for,
                   SDK_AVAILABLE, api_key, settings, status, pc, cur,
                   agent_result, success, stepbacks>>
    /\ UNCHANGED <<PID_FILE, procs>>

AddInfrastructure(prjid, row) ==
    /\ Quiet
    /\ Len(infrastructure) < MaxInfra
    /\ prjid \in DOMAIN project
    /\ infrastructure' = add_infrastructure(infrastructure, project, prjid,
                              row.inftype, row.infprovider, row.infval)
    /\ UNCHANGED <<project, request, request_infrastructure, learning, next_prjid,
                   next_reqid, plan_md, rate_limited_for, SDK_AVAILABLE,
                   api_key, settings, status, pc, cur, agent_result, success, stepbacks>>
    /\ UNCHANGED <<PID_FILE, procs>>

AddRequestInfrastructure(reqid, row) ==
    /\ Quiet
    /\ Len(request_infrastructure) < MaxReqInfra
    /\ reqid \in DOMAIN request
    /\ request_infrastructure' =
          add_request_infrastructure(request_infrastructure, request, reqid,
                                     row.inftype, row.infprovider, row.infval)
    /\ UNCHANGED <<project, request, infrastructure, learning, next_prjid,
                   next_reqid, plan_md, rate_limited_for, SDK_AVAILABLE,
                   api_key, settings, status, pc, cur, agent_result, success, stepbacks>>
    /\ UNCHANGED <<PID_FILE, procs>>

(***************************************************************************)
(* Daemon loop (BentWookieDaemon.run) and process_request.                 *)
(***************************************************************************)
\* escalation can file its request, or has no project to file it against
BugfixRoom == fk_project(project, BENTWOOKIE_PROJECT_ID) => next_reqid <= MaxRequests

\* process_request returns to daemon.py 137
Return(result) ==
    /\ success' = result
    /\ pc' = "done"
    /\ agent_result' = NoResult
    /\ UNCHANGED <<status, cur>>

\* faulty variant: the failure of a bug-fix request is not escalated
Escalate_spares_bugfixes(req, ts) ==
    /\ BugfixRoom
    /\ request' = IF request[cur.reqid].reqtype = "bug_fix"
                  THEN touch_order(req)
                  ELSE touch_order(_create_bugfix_request(req, project, next_reqid, ts))
    /\ next_reqid' = IF next_reqid \in DOMAIN request' THEN next_reqid + 1 ELSE next_reqid
    /\ stepbacks' = IF next_reqid \in DOMAIN request'
                    THEN (next_reqid :> 0) @@ stepbacks ELSE stepbacks

\* _create_bugfix_request as the last step of a terminal failure
Escalate(req, ts) ==
    /\ BugfixRoom
    /\ request' = touch_order(_create_bugfix_request(req, project, next_reqid, ts))
    /\ next_reqid' = IF next_reqid \in DOMAIN request' THEN next_reqid + 1 ELSE next_reqid
    /\ stepbacks' = IF next_reqid \in DOMAIN request'
                    THEN (next_reqid :> 0) @@ stepbacks ELSE stepbacks

Run ==
    /\ pc = "init"
    /\ pc' = "loop"
    /\ status' = [status EXCEPT !.running = TRUE]
    /\ UNCHANGED <<store, plan_md, rate_limited_for, SDK_AVAILABLE, api_key,
                   settings, cur, agent_result, success, stepbacks>>
    /\ UNCHANGED <<PID_FILE, procs>>

\* guards of one loop iteration up to the rate-limit check (daemon.py 92-115);
\* max_iterations = 0 is "unlimited", and the paused flag and iteration count
\* the loop keeps on its status object are not part of the state
LoopReady ==
    /\ pc = "loop"
    /\ status.running
    /\ ~ is_loop_paused(settings)
    /\ get_max_iterations(settings) = 0

\* daemon.py 117-122
LoopRateLimited ==
    /\ LoopReady
    /\ is_rate_limited
    /\ rate_limited_for' =
          Max(0, rate_limited_for
                   - Min(get_rate_limit_wait, get_poll_interval(settings)))
    /\ UNCHANGED <<store, plan_md, SDK_AVAILABLE, api_key, settings, status,
                   pc, cur, agent_result, success, stepbacks>>
    /\ UNCHANGED <<PID_FILE, procs>>

\* daemon.py 124-135
LoopGetNext ==
    /\ LoopReady
    /\ ~ is_rate_limited
    /\ \E r \in get_next_request(request, project) :
          /\ cur' = [reqid |-> r, prjid |-> request[r].prjid,
                     reqphase |-> request[r].reqphase,
                     reqtestretries |-> request[r].reqtestretries]
          /\ status' = [status EXCEPT !.current_request_id = r,
                                      !.current_phase = request[r].reqphase]
    /\ pc' = "selected"
    /\ UNCHANGED <<store, plan_md, rate_limited_for, SDK_AVAILABLE, api_key,
                   settings, agent_result, success, stepbacks>>
    /\ UNCHANGED <<PID_FILE, procs>>

\* faulty variant: the credentials of auth mode api are not checked
PreconditionError_sdk_only ==
    IF ~ SDK_AVAILABLE
    THEN ErrorText("Claude Agent SDK not available", None, 0, <<>>)
    ELSE NoError

\* processor.py 285 and 296-299
PreconditionError ==
    IF ~ SDK_AVAILABLE
    THEN ErrorText("Claude Agent SDK not available", None, 0, <<>>)
    ELSE IF get_auth_mode(settings) = AUTH_MODE_API /\ ~ api_key
    THEN ErrorText("ANTHROPIC_API_KEY not set", None, 0, <<>>)
    ELSE NoError

\* processor.py 281-309 when a precondition fails
ProcessPreconditionFails ==
    /\ pc = "selected"
    /\ PreconditionError # NoError
    /\ LET ts == now_ts(request)
       IN Escalate(fail_precondition(mark_wip(request, cur.reqid, ts), cur.reqid,
                                     PreconditionError, ts), ts)
    /\ Return(FALSE)
    /\ UNCHANGED <<project, infrastructure, request_infrastructure, learning,
                   next_prjid, plan_md, rate_limited_for, SDK_AVAILABLE, api_key,
                   settings>>
    /\ UNCHANGED <<PID_FILE, procs>>

\* processor.py 281-357 up to the awaited agent call
ProcessStart ==
    /\ pc = "selected"
    /\ PreconditionError = NoError
    /\ request' = touch_order(mark_wip(request, cur.reqid, now_ts(request)))
    /\ api_key' = IF get_auth_mode(settings) = AUTH_MODE_MAX THEN FALSE ELSE api_key
    /\ pc' = "await"
    /\ UNCHANGED <<project, infrastructure, request_infrastructure, learning,
                   next_prjid, next_reqid, plan_md, rate_limited_for, SDK_AVAILABLE,
                   settings, status, cur, agent_result, success, stepbacks>>
    /\ UNCHANGED <<PID_FILE, procs>>

\* the agent call of processor.py 354-357 ends
AgentReturns(outcome) ==
    /\ pc = "await"
    /\ agent_result' = outcome
    /\ pc' = "returned"
    /\ UNCHANGED <<store, plan_md, rate_limited_for, SDK_AVAILABLE, api_key,
                   settings, status, cur, success, stepbacks>>
    /\ UNCHANGED <<PID_FILE, procs>>

\* processor.py 366-368
TestFailed ==
    /\ agent_result.kind = "ok"
    /\ cur.reqphase = "test"
    /\ agent_result.found
    /\ agent_result.error_count > 0

\* processor.py 424-430
FinishTimeout ==
    /\ pc = "returned"
    /\ agent_result.kind = "timeout"
    /\ LET ts == now_ts(request)
       IN Escalate(fail_timeout(request, cur.reqid, cur.reqphase, ts), ts)
    /\ Return(FALSE)
    /\ UNCHANGED <<project, infrastructure, request_infrastructure, learning,
                   next_prjid, plan_md, rate_limited_for, SDK_AVAILABLE, api_key,
                   settings>>
    /\ UNCHANGED <<PID_FILE, procs>>

\* processor.py 432-446
FinishRateLimited ==
    /\ pc = "returned"
    /\ agent_result.kind = "error"
    /\ _is_rate_limit_error(agent_result.msg)
    /\ rate_limited_for' = INITIAL_BACKOFF
    /\ request' = touch_order(requeue_rate_limited(request, cur.reqid, now_ts(request)))
    /\ Return(FALSE)
    /\ UNCHANGED <<project, infrastructure, request_infrastructure, learning,
                   next_prjid, next_reqid, plan_md, SDK_AVAILABLE, api_key, settings,
                   stepbacks>>
    /\ UNCHANGED <<PID_FILE, procs>>

\* processor.py 448-478
FinishError ==
    /\ pc = "returned"
    /\ agent_result.kind = "error"
    /\ ~ _is_rate_limit_error(agent_result.msg)
    /\ learning' = add_learning(learning, project, cur.prjid,
                        [text |-> "Error in phase", reqid |-> cur.reqid]).learning
    /\ LET ts == now_ts(request)
       IN Escalate(fail_error(request, cur.reqid, agent_result.msg, cur.reqphase, ts), ts)
    /\ Return(FALSE)
    /\ UNCHANGED <<project, infrastructure, request_infrastructure, next_prjid,
                   plan_md, rate_limited_for, SDK_AVAILABLE, api_key, settings>>
    /\ UNCHANGED <<PID_FILE, procs>>

\* processor.py 366-386; the project of a dispatched request exists
\* (get_next_request joins project), so the learning row is accepted
FinishTestExhausted ==
    /\ pc = "returned"
    /\ TestFailed
    /\ tests_exhausted(cur.reqtestretries)
    /\ learning' = add_learning(learning, project, cur.prjid,
                        [text |-> "exceeded max test retries",
                         reqid |-> cur.reqid]).learning
    /\ LET ts == now_ts(request)
       IN Escalate(fail_tests_exhausted(request, cur.reqid,
                                        agent_result.error_count, ts), ts)
    /\ Return(FALSE)
    /\ UNCHANGED <<project, infrastructure, request_infrastructure, next_prjid,
                   plan_md, rate_limited_for, SDK_AVAILABLE, api_key, settings>>
    /\ UNCHANGED <<PID_FILE, procs>>

\* processor.py 366-403
FinishTestRetry ==
    /\ pc = "returned"
    /\ TestFailed
    /\ ~ tests_exhausted(cur.reqtestretries)
    /\ plan_md' = _generate_error_fix_plan(plan_md, cur.prjid, agent_result.error_count)
    /\ request' = touch_order(retry_tests(request, cur.reqid, now_ts(request)))
    /\ stepbacks' = [stepbacks EXCEPT ![cur.reqid] = @ + 1]
    /\ Return(TRUE)
    /\ UNCHANGED <<project, infrastructure, request_infrastructure, learning,
                   next_prjid, next_reqid, rate_limited_for, SDK_AVAILABLE, api_key,
                   settings>>
    /\ UNCHANGED <<PID_FILE, procs>>

\* processor.py 405-422
FinishAdvance ==
    /\ pc = "returned"
    /\ agent_result.kind = "ok"
    /\ ~ TestFailed
    /\ LET ts == now_ts(request)
           req1 == IF cur.reqphase = "test"
                   THEN tests_passed(request, cur.reqid, cur.reqtestretries, ts)
                   ELSE request
           next_phase == get_next_phase(cur.reqphase, cur.reqid, req1, infrastructure,
                                        request_infrastructure, settings)
       IN request' = touch_order(advance_phase(req1, cur.reqid, next_phase, ts))
    /\ Return(TRUE)
    /\ UNCHANGED <<project, infrastructure, request_infrastructure, learning,
                   next_prjid, next_reqid, plan_md, rate_limited_for, SDK_AVAILABLE,
                   api_key, settings, stepbacks>>
    /\ UNCHANGED <<PID_FILE, procs>>

\* daemon.py 139-148
LoopBookkeeping ==
    /\ pc = "done"
    /\ status' = [status EXCEPT !.current_request_id = NoneInt,
                                !.current_phase = None]
    /\ cur' = NoRequest
    /\ success' = None
    /\ pc' = "loop"
    /\ UNCHANGED <<store, plan_md, rate_limited_for, SDK_AVAILABLE, api_key, settings,
                   agent_result, stepbacks>>
    /\ UNCHANGED <<PID_FILE, procs>>

Next ==
    \/ \E c \in {NoneInt} : CreateProject(c)
    \/ \E p \in DOMAIN project, pr \in PriorityChoices, ph \in StartPhases,
          c \in CommitChoices : CreateRequest(p, pr, ph, c)
    \/ \E p \in DOMAIN project : DeleteProject(p)
    \/ \E p \in DOMAIN project, row \in ProjectInfraChoices : AddInfrastructure(p, row)
    \/ \E r \in DOMAIN request, row \in RequestInfraChoices :
          AddRequestInfrastructure(r, row)
    \/ Run
    \/ LoopRateLimited
    \/ LoopGetNext
    \/ ProcessPreconditionFails
    \/ ProcessStart
    \/ \E o \in AgentOutcomes : AgentReturns(o)
    \/ FinishTimeout
    \/ FinishRateLimited
    \/ FinishError
    \/ FinishTestExhausted
    \/ FinishTestRetry
    \/ FinishAdvance
    \/ LoopBookkeeping

Spec == Init /\ [][Next]_vars

(***************************************************************************)
(* The exception handler of process_request (processor.py 432-478) over    *)
(* every category of error message, on a store with one pending request.   *)
(***************************************************************************)
\* one message per branch of the handler, and messages that fall in two
ErrorCategoryMsgs ==
    {<<"credit">>, <<"balance">>, <<"billing">>, <<"exit code 1">>,
     <<"command failed">>, <<"API", "key">>, <<"auth">>, <<"agent failed">>, <<>>,
     <<"credit", "exit code 1">>, <<"rate limit">>, <<"billing", "429">>}

\* the agent call raises with one of the messages
AgentErrors ==
    {[kind |-> "error", msg |-> m, found |-> FALSE, error_count |-> 0] :
        m \in ErrorCategoryMsgs}

\* the maintenance project and a user project, or the user project alone
ErrorProjects ==
    LET both == create_project(create_project(<<>>, BENTWOOKIE_PROJECT_ID, NoneInt),
                               2, NoneInt)
    IN {both,
        delete_project([project |-> both, request |-> <<>>, infrastructure |-> <<>>,
                        request_infrastructure |-> <<>>, learning |-> <<>>],
                       BENTWOOKIE_PROJECT_ID).project}

\* a running daemon in front of one request in any phase that is dispatched
InitErrors ==
    /\ \E prj \in ErrorProjects :
          \E owner \in DOMAIN prj, ph \in {"plan", "dev", "test", "deploy", "verify",
                                           "document", "commit"},
             pr \in PriorityChoices :
             /\ project = prj
             /\ request = create_request(<<>>, prj, 1, owner, "new_feature", STATUS_TBD,
                                         ph, pr, NoneInt, 1).request
    /\ infrastructure = <<>>
    /\ request_infrastructure = <<>>
    /\ learning = <<>>
    /\ next_prjid = 3
    /\ next_reqid = 2
    /\ plan_md = <<>>
    /\ rate_limited_for = 0
    /\ SDK_AVAILABLE = TRUE
    /\ settings = DEFAULT_SETTINGS
    /\ api_key = TRUE
    /\ status = [DaemonStatus EXCEPT !.running = TRUE]
    /\ pc = "loop"
    /\ cur = NoRequest
    /\ agent_result = NoResult
    /\ success = None
    /\ stepbacks = [r \in {1} |-> 0]
    /\ PID_FILE = NoneInt
    /\ procs = NoProcesses

NextErrors ==
    \/ LoopRateLimited
    \/ LoopGetNext
    \/ ProcessStart
    \/ \E o \in AgentErrors : AgentReturns(o)
    \/ FinishRateLimited
    \/ FinishError
    \/ LoopBookkeeping

SpecErrors == InitErrors /\ [][NextErrors]_vars

(***************************************************************************)
(* The phase engine (phases.py 220-339) over every infrastructure and      *)
(* commit configuration of one request, applied by successful dispatches.  *)
(***************************************************************************)
\* rows an operator can give a project (app.py 336-371)
PhaseProjectInfraChoices ==
    {[inftype |-> "compute", infprovider |-> "aws", infval |-> <<"lambda">>],
     [inftype |-> "compute", infprovider |-> "local", infval |-> <<>>],
     [inftype |-> "storage", infprovider |-> "aws", infval |-> <<"Localhost">>]}

\* overrides an operator can give a request (app.py 374-410)
PhaseRequestInfraChoices ==
    {[inftype |-> "compute", infprovider |-> "aws", infval |-> <<"lambda">>],
     [inftype |-> "compute", infprovider |-> "aws", infval |-> <<"Localhost">>],
     [inftype |-> "compute", infprovider |-> "local", infval |-> <<>>],
     [inftype |-> "storage", infprovider |-> "local", infval |-> <<"lambda">>]}

\* the sequences over S of length at most n
SeqsUpTo(S, n) == UNION {[1..k -> S] : k \in 0..n}

\* the global commit default unset, enabled or disabled
PhaseSettings ==
    {DEFAULT_SETTINGS, [commit_enabled |-> TRUE] @@ DEFAULT_SETTINGS,
     [commit_enabled |-> FALSE] @@ DEFAULT_SETTINGS}

\* a response of the agent that carries no test report
AgentOk == [kind |-> "ok", msg |-> <<>>, found |-> FALSE, error_count |-> 0]

\* a running daemon in front of one request in any phase, with any commit
\* overrides (cli.py 489-501) and any infrastructure of project and request
InitPhases ==
    /\ \E pc_ \in {NoneInt, 0, 1}, rc \in {NoneInt, 0, 2},
          ph \in {"plan", "dev", "test", "deploy", "verify", "document", "commit"} :
          /\ project = create_project(<<>>, 1, pc_)
          /\ request = create_request(<<>>, project, 1, 1, "new_feature", STATUS_TBD,
                                      ph, DEFAULT_PRIORITY, rc, 1).request
    /\ \E rows \in SeqsUpTo(PhaseProjectInfraChoices, MaxInfra) :
          infrastructure =
             [i \in 1..Len(rows) |->
                 add_infrastructure(<<>>, project, 1, rows[i].inftype,
                                    rows[i].infprovider, rows[i].infval)[1]]
    /\ \E rows \in SeqsUpTo(PhaseRequestInfraChoices, MaxReqInfra) :
          request_infrastructure =
             [i \in 1..Len(rows) |->
                 add_request_infrastructure(<<>>, request, 1, rows[i].inftype,
                                            rows[i].infprovider, rows[i].infval)[1]]
    /\ learning = <<>>
    /\ next_prjid = 2
    /\ next_reqid = 2
    /\ plan_md = <<>>
    /\ rate_limited_for = 0
    /\ SDK_AVAILABLE = TRUE
    /\ settings \in PhaseSettings
    /\ api_key = TRUE
    /\ status = [DaemonStatus EXCEPT !.running = TRUE]
    /\ pc = "loop"
    /\ cur = NoRequest
    /\ agent_result = NoResult
    /\ success = None
    /\ stepbacks = [r \in {1} |-> 0]
    /\ PID_FILE = NoneInt
    /\ procs = NoProcesses

NextPhases ==
    \/ LoopGetNext
    \/ ProcessStart
    \/ AgentReturns(AgentOk)
    \/ FinishAdvance
    \/ LoopBookkeeping

SpecPhases == InitPhases /\ [][NextPhases]_vars

(***************************************************************************)
(* The control flow of BentWookieDaemon.run (daemon.py 92-165): pause,     *)
(* iteration limit, stop signal, unexpected exceptions and the counters of *)
(* DaemonStatus, in front of one request.                                  *)
(***************************************************************************)
MaxLoopErrors == 2

\* DaemonStatus with the counters the loop keeps; run reads and writes paused
\* and iteration_count on the same object
DaemonStatusCounted ==
    [running |-> FALSE, current_request_id |-> NoneInt, current_phase |-> None,
     requests_processed |-> 0, errors_count |-> 0, paused |-> FALSE,
     iteration_count |-> 0]

\* values of the max_iterations setting (settings.py 148-163)
MaxIterationChoices == {0, 1, 2}

\* the request's project has no infrastructure, a local row or a cloud row
DaemonInfraChoices ==
    {<<>>,
     <<[prjid |-> 2, inftype |-> "compute", infprovider |-> "local", infval |-> <<>>]>>,
     <<[prjid |-> 2, inftype |-> "compute", infprovider |-> "aws",
        infval |-> <<"lambda">>]>>}

\* the agent call answers, or raises an error that is not a rate limit
DaemonOutcomes ==
    {[kind |-> "ok", msg |-> <<>>, found |-> FALSE, error_count |-> 0],
     [kind |-> "error", msg |-> <<"agent failed">>, found |-> FALSE, error_count |-> 0]}

\* a constructed daemon, the maintenance project and a project with one request
\* created in phase plan
InitDaemon ==
    /\ project = create_project(create_project(<<>>, BENTWOOKIE_PROJECT_ID, NoneInt),
                                2, NoneInt)
    /\ request = create_request(<<>>, project, 1, 2, "new_feature", STATUS_TBD,
                                "plan", DEFAULT_PRIORITY, NoneInt, 1).request
    /\ infrastructure \in DaemonInfraChoices
    /\ request_infrastructure = <<>>
    /\ learning = <<>>
    /\ next_prjid = 3
    /\ next_reqid = 2
    /\ plan_md = <<>>
    /\ rate_limited_for = 0
    /\ SDK_AVAILABLE = TRUE
    /\ \E n \in MaxIterationChoices :
          settings = [DEFAULT_SETTINGS EXCEPT !.max_iterations = n]
    /\ api_key = TRUE
    /\ status = DaemonStatusCounted
    /\ pc = "init"
    /\ cur = NoRequest
    /\ agent_result = NoResult
    /\ success = None
    /\ stepbacks = [r \in {1} |-> 0]
    /\ PID_FILE = NoneInt
    /\ procs = NoProcesses

\* settings.pause_loop
pause_loop ==
    /\ ~ is_loop_paused(settings)
    /\ settings' = [settings EXCEPT !.loop_paused = TRUE]
    /\ UNCHANGED <<store, plan_md, rate_limited_for, SDK_AVAILABLE, api_key, status,
                   pc, cur, agent_result, success, stepbacks>>
    /\ UNCHANGED <<PID_FILE, procs>>

\* settings.resume_loop
resume_loop ==
    /\ is_loop_paused(settings)
    /\ settings' = [settings EXCEPT !.loop_paused = FALSE]
    /\ UNCHANGED <<store, plan_md, rate_limited_for, SDK_AVAILABLE, api_key, status,
                   pc, cur, agent_result, success, stepbacks>>
    /\ UNCHANGED <<PID_FILE, procs>>

\* faulty variant: the signal handler abandons the dispatch in progress
_shutdown_aborts ==
    /\ pc \in {"loop", "await"}
    /\ status.running
    /\ status' = [status EXCEPT !.running = FALSE]
    /\ pc' = "stopped"
    /\ UNCHANGED <<store, plan_md, rate_limited_for, SDK_AVAILABLE, api_key, settings,
                   cur, agent_result, success, stepbacks>>
    /\ UNCHANGED <<PID_FILE, procs>>

\* daemon.py 167-171, run by the event loop on SIGTERM or SIGINT while the loop
\* coroutine is suspended in a sleep or in the agent call
_shutdown ==
    /\ pc \in {"loop", "await"}
    /\ status.running
    /\ status' = [status EXCEPT !.running = FALSE]
    /\ UNCHANGED <<store, plan_md, rate_limited_for, SDK_AVAILABLE, api_key, settings,
                   pc, cur, agent_result, success, stepbacks>>
    /\ UNCHANGED <<PID_FILE, procs>>

\* daemon.py 92 and 165: the loop condition fails and run returns
DaemonLoopExit ==
    /\ pc = "loop"
    /\ ~ status.running
    /\ pc' = "stopped"
    /\ UNCHANGED <<store, plan_md, rate_limited_for, SDK_AVAILABLE, api_key, settings,
                   status, cur, agent_result, success, stepbacks>>
    /\ UNCHANGED <<PID_FILE, procs>>

\* daemon.py 100-106
DaemonLoopPaused ==
    /\ pc = "loop"
    /\ status.running
    /\ is_loop_paused(settings)
    /\ status' = [status EXCEPT !.paused = TRUE]
    /\ UNCHANGED <<store, plan_md, rate_limited_for, SDK_AVAILABLE, api_key, settings,
                   pc, cur, agent_result, success, stepbacks>>
    /\ UNCHANGED <<PID_FILE, procs>>

\* faulty variant: the limit is passed by one dispatch
max_iterations_reached_late(st, sett) ==
    get_max_iterations(sett) > 0 /\ st.iteration_count > get_max_iterations(sett)

\* daemon.py 112-113
max_iterations_reached(st, sett) ==
    get_max_iterations(sett) > 0 /\ st.iteration_count >= get_max_iterations(sett)

\* daemon.py 111-115: break leaves self.running as it is
DaemonLoopMaxIterations ==
    /\ pc = "loop"
    /\ status.running
    /\ ~ is_loop_paused(settings)
    /\ max_iterations_reached(status, settings)
    /\ status' = [status EXCEPT !.paused = FALSE]
    /\ pc' = "stopped"
    /\ UNCHANGED <<store, plan_md, rate_limited_for, SDK_AVAILABLE, api_key, settings,
                   cur, agent_result, success, stepbacks>>
    /\ UNCHANGED <<PID_FILE, procs>>

\* the guards of daemon.py 92-122 all passed
DaemonLoopReady ==
    /\ pc = "loop"
    /\ status.running
    /\ ~ is_loop_paused(settings)
    /\ ~ max_iterations_reached(status, settings)
    /\ ~ is_rate_limited

\* daemon.py 107-109 and 124-135
DaemonLoopGetNext ==
    /\ DaemonLoopReady
    /\ \E r \in get_next_request(request, project) :
          /\ cur' = [reqid |-> r, prjid |-> request[r].prjid,
                     reqphase |-> request[r].reqphase,
                     reqtestretries |-> request[r].reqtestretries]
          /\ status' = [status EXCEPT !.paused = FALSE,
                                      !.current_request_id = r,
                                      !.current_phase = request[r].reqphase]
    /\ pc' = "selected"
    /\ UNCHANGED <<store, plan_md, rate_limited_for, SDK_AVAILABLE, api_key,
                   settings, agent_result, success, stepbacks>>
    /\ UNCHANGED <<PID_FILE, procs>>

\* daemon.py 107-109 and 150-153: nothing is pending
DaemonLoopIdle ==
    /\ DaemonLoopReady
    /\ get_next_request(request, project) = {}
    /\ status.paused
    /\ status' = [status EXCEPT !.paused = FALSE]
    /\ UNCHANGED <<store, plan_md, rate_limited_for, SDK_AVAILABLE, api_key, settings,
                   pc, cur, agent_result, success, stepbacks>>
    /\ UNCHANGED <<PID_FILE, procs>>

\* daemon.py 139-148
DaemonLoopBookkeeping ==
    /\ pc = "done"
    /\ status' = [status EXCEPT
                    !.iteration_count = @ + 1,
                    !.requests_processed = IF success = TRUE THEN @ + 1 ELSE @,
                    !.errors_count = IF success = TRUE THEN @ ELSE @ + 1,
                    !.current_request_id = NoneInt,
                    !.current_phase = None]
    /\ cur' = NoRequest
    /\ success' = None
    /\ pc' = "loop"
    /\ UNCHANGED <<store, plan_md, rate_limited_for, SDK_AVAILABLE, api_key, settings,
                   agent_result, stepbacks>>
    /\ UNCHANGED <<PID_FILE, procs>>

\* faulty variant: the exception ends the loop
DaemonLoopException_fatal ==
    /\ \/ (pc = "loop" /\ status.running)
       \/ pc \in {"selected", "returned"}
    /\ status.errors_count < MaxLoopErrors
    /\ pc' = "stopped"
    /\ cur' = NoRequest
    /\ agent_result' = NoResult
    /\ UNCHANGED <<store, plan_md, rate_limited_for, SDK_AVAILABLE, api_key, settings,
                   status, success, stepbacks>>
    /\ UNCHANGED <<PID_FILE, procs>>

\* daemon.py 159-163: an exception escapes from the settings reload or the
\* selection (loop), from process_request before its first write (selected) or
\* from one of its handlers (returned); the statement that raised is rolled
\* back and what was written before it stays
DaemonLoopException ==
    /\ \/ (pc = "loop" /\ status.running)
       \/ pc \in {"selected", "returned"}
    /\ status.errors_count < MaxLoopErrors
    /\ status' = [status EXCEPT !.errors_count = @ + 1]
    /\ pc' = "loop"
    /\ cur' = NoRequest
    /\ agent_result' = NoResult
    /\ UNCHANGED <<store, plan_md, rate_limited_for, SDK_AVAILABLE, api_key, settings,
                   success, stepbacks>>
    /\ UNCHANGED <<PID_FILE, procs>>

NextDaemon ==
    \/ Run
    \/ pause_loop
    \/ resume_loop
    \/ _shutdown
    \/ DaemonLoopExit
    \/ DaemonLoopPaused
    \/ DaemonLoopMaxIterations
    \/ DaemonLoopGetNext
    \/ DaemonLoopIdle
    \/ ProcessStart
    \/ \E o \in DaemonOutcomes : AgentReturns(o)
    \/ FinishError
    \/ FinishAdvance
    \/ DaemonLoopBookkeeping
    \/ DaemonLoopException

SpecDaemon == InitDaemon /\ [][NextDaemon]_vars

(***************************************************************************)
(* The daemon process stopped and started again on the same store.         *)
(***************************************************************************)

\* the daemon process ends at any point of run, by its own return, by a signal
\* that is not handled (SIGKILL), by a crash or with the machine: what the
\* process held in memory (the status object, the request in hand, the
\* rate-limit window of processor.py 30, the environment of the process) is
\* gone, the store and the files stay; a new process starts from __init__
ProcessStops ==
    /\ pc # "init"
    /\ pc' = "init"
    /\ status' = DaemonStatusCounted
    /\ cur' = NoRequest
    /\ agent_result' = NoResult
    /\ success' = None
    /\ rate_limited_for' = 0
    /\ api_key' \in BOOLEAN
    /\ UNCHANGED <<store, plan_md, SDK_AVAILABLE, settings, stepbacks>>
    /\ UNCHANGED <<PID_FILE, procs>>

NextRestart ==
    \/ Run
    \/ _shutdown
    \/ DaemonLoopExit
    \/ DaemonLoopMaxIterations
    \/ DaemonLoopGetNext
    \/ ProcessStart
    \/ \E o \in DaemonOutcomes : AgentReturns(o)
    \/ FinishError
    \/ FinishAdvance
    \/ DaemonLoopBookkeeping
    \/ ProcessStops

SpecRestart == InitDaemon /\ [][NextRestart]_vars

(***************************************************************************)
(* The PID marker: start_daemon and stop_daemon called by processes of     *)
(* their own (cli.py 940-1015, daemon.py 197-362).  The loop of a daemon   *)
(* is reduced to its running flag.                                         *)
(***************************************************************************)

\* what a daemon process works on, left alone by the calls around the marker
loop_state == <<store, plan_md, rate_limited_for, SDK_AVAILABLE, api_key, settings,
                status, pc, cur, agent_result, success, stepbacks>>

InitPid ==
    /\ project = create_project(<<>>, BENTWOOKIE_PROJECT_ID, NoneInt)
    /\ request = <<>>
    /\ infrastructure = <<>>
    /\ request_infrastructure = <<>>
    /\ learning = <<>>
    /\ next_prjid = 2
    /\ next_reqid = 1
    /\ plan_md = <<>>
    /\ rate_limited_for = 0
    /\ SDK_AVAILABLE = TRUE
    /\ settings = DEFAULT_SETTINGS
    /\ api_key = TRUE
    /\ status = DaemonStatusCounted
    /\ pc = "init"
    /\ cur = NoRequest
    /\ agent_result = NoResult
    /\ success = None
    /\ stepbacks = <<>>
    /\ PID_FILE = NoneInt
    /\ procs = NoProcesses

\* the operating system hands out the lowest pid not used so far
NewPid(p) ==
    /\ procs[p].at = "free"
    /\ \A q \in Pids : q < p => procs[q].at # "free"

\* os.kill(pid, 0) of daemon.py 357 finds a process
ProcessExists(pid) == procs[pid].at \notin {"free", "refused", "exited"}

\* daemon.py 346-362, the value returned
is_daemon_running == PID_FILE # NoneInt /\ ProcessExists(PID_FILE)

\* daemon.py 359-361, the marker after the call: a stale marker is removed
stale_pid_file_removed == IF is_daemon_running THEN PID_FILE ELSE NoneInt

\* SIGTERM arrives at a process: a daemon in its loop runs _shutdown (daemon.py
\* 59-60, 167-171) and goes on to the end of its iteration, any other process
\* is ended by the default action of the signal
SIGTERM(ps, pid) ==
    [ps EXCEPT ![pid].at = IF @ \in {"running", "stopping"} THEN "stopping"
                           ELSE IF @ = "free" THEN @ ELSE "exited"]

\* cli.py 940-984: "bw loop start" is a new process that calls start_daemon
loop_start(p) ==
    /\ NewPid(p)
    /\ procs' = [procs EXCEPT ![p].at = "start"]
    /\ UNCHANGED <<PID_FILE, loop_state>>

\* daemon.py 219-222
start_daemon_check(p) ==
    /\ procs[p].at = "start"
    /\ PID_FILE' = stale_pid_file_removed
    /\ procs' = [procs EXCEPT ![p].at = IF is_daemon_running THEN "refused"
                                         ELSE "checked"]
    /\ UNCHANGED loop_state

\* daemon.py 252-265, foreground: the process writes its own pid and runs the loop
start_daemon_foreground(p) ==
    /\ procs[p].at = "checked"
    /\ PID_FILE' = p
    /\ procs' = [procs EXCEPT ![p].at = "running"]
    /\ UNCHANGED loop_state

\* daemon.py 228-230, background: the first fork
start_daemon_fork(p, c) ==
    /\ procs[p].at = "checked"
    /\ NewPid(c)
    /\ procs' = [procs EXCEPT ![p] = [at |-> "parent", child |-> c],
                              ![c].at = "child"]
    /\ UNCHANGED <<PID_FILE, loop_state>>

\* daemon.py 231-236: the parent writes the pid of its child and exits
start_daemon_parent(p) ==
    /\ procs[p].at = "parent"
    /\ PID_FILE' = procs[p].child
    /\ procs' = [procs EXCEPT ![p].at = "exited"]
    /\ UNCHANGED loop_state

\* daemon.py 237-265: the child forks again and exits, the process it leaves
\* behind runs the loop
start_daemon_child(c, g) ==
    /\ procs[c].at = "child"
    /\ NewPid(g)
    /\ procs' = [procs EXCEPT ![c].at = "exited", ![g].at = "running"]
    /\ UNCHANGED <<PID_FILE, loop_state>>

\* a signal sent to the daemon itself (Ctrl+C in the foreground, kill)
daemon_signalled(p) ==
    /\ procs[p].at = "running"
    /\ procs' = SIGTERM(procs, p)
    /\ UNCHANGED <<PID_FILE, loop_state>>

\* daemon.py 92-165 and 271-273: the loop ends, after a signal or at the
\* iteration limit, and the finally clause removes the marker
start_daemon_finally(p) ==
    /\ procs[p].at \in {"running", "stopping"}
    /\ PID_FILE' = NoneInt
    /\ procs' = [procs EXCEPT ![p].at = "exited"]
    /\ UNCHANGED loop_state

\* cli.py 987-1015: "bw loop stop" is a new process that takes the steps of
\* stop_daemon for a daemon in another process
loop_stop(p) ==
    /\ NewPid(p)
    /\ procs' = [procs EXCEPT ![p].at = "stop"]
    /\ UNCHANGED <<PID_FILE, loop_state>>

\* daemon.py 289-296 (cli.py 1002-1010): the check of the marker and the signal
\* to the pid read from it
stop_daemon_kill(p) ==
    /\ procs[p].at = "stop"
    /\ PID_FILE' = stale_pid_file_removed
    /\ procs' = IF is_daemon_running
                THEN [SIGTERM(procs, PID_FILE) EXCEPT ![p].at = "signalled"]
                ELSE [procs EXCEPT ![p].at = "exited"]
    /\ UNCHANGED loop_state

\* daemon.py 297-298 (cli.py 1011)
stop_daemon_remove(p) ==
    /\ procs[p].at = "signalled"
    /\ PID_FILE' = NoneInt
    /\ procs' = [procs EXCEPT ![p].at = "exited"]
    /\ UNCHANGED loop_state

NextPid ==
    \/ \E p \in Pids : loop_start(p)
    \/ \E p \in Pids : start_daemon_check(p)
    \/ \E p \in Pids : start_daemon_foreground(p)
    \/ \E p, c \in Pids : start_daemon_fork(p, c)
    \/ \E p \in Pids : start_daemon_parent(p)
    \/ \E c, g \in Pids : start_daemon_child(c, g)
    \/ \E p \in Pids : daemon_signalled(p)
    \/ \E p \in Pids : start_daemon_finally(p)
    \/ \E p \in Pids : loop_stop(p)
    \/ \E p \in Pids : stop_daemon_kill(p)
    \/ \E p \in Pids : stop_daemon_remove(p)

SpecPid == InitPid /\ [][NextPid]_vars

(***************************************************************************)
(* The store commands of an operator on a store with two projects and any  *)
(* rows below them (queries.py, cli.py, web/app.py).                       *)
(***************************************************************************)
MaxStoreRows == 2

\* the project ids a command can name: those handed out and one never used
StoreProjectIds == 1..(MaxProjects + 1)

\* a store as the commands leave it: every row names an existing owner,
\* learnings may name the global owner -1
InitStore ==
    /\ project = create_project(create_project(<<>>, BENTWOOKIE_PROJECT_ID, NoneInt),
                                2, NoneInt)
    /\ next_prjid = 3
    /\ \E n \in 0..MaxRequests :
          /\ next_reqid = n + 1
          /\ stepbacks = [r \in 1..n |-> 0]
          /\ \E owner \in [1..n -> DOMAIN project] :
                request = [r \in 1..n |->
                              create_request(<<>>, project, r, owner[r], "new_feature",
                                             STATUS_TBD, "plan", DEFAULT_PRIORITY,
                                             NoneInt, r).request[r]]
    /\ \E owner \in SeqsUpTo(DOMAIN project, MaxStoreRows) :
          infrastructure =
             [i \in 1..Len(owner) |->
                 add_infrastructure(<<>>, project, owner[i], "compute", "aws",
                                    <<"lambda">>)[1]]
    /\ \E owner \in SeqsUpTo(DOMAIN request, MaxStoreRows) :
          request_infrastructure =
             [i \in 1..Len(owner) |->
                 add_request_infrastructure(<<>>, request, owner[i], "compute",
                                            "local", <<>>)[1]]
    /\ \E owner \in SeqsUpTo(DOMAIN project \cup {NoneInt}, MaxStoreRows) :
          learning =
             [i \in 1..Len(owner) |->
                 add_learning(<<>>, project, owner[i], <<"learned">>).learning[1]]
    /\ plan_md = <<>>
    /\ rate_limited_for = 0
    /\ SDK_AVAILABLE = TRUE
    /\ settings = DEFAULT_SETTINGS
    /\ api_key = TRUE
    /\ status = DaemonStatus
    /\ pc = "init"
    /\ cur = NoRequest
    /\ agent_result = NoResult
    /\ success = None
    /\ PID_FILE = NoneInt
    /\ procs = NoProcesses

\* cli.py 630, web/app.py 327
DeleteRequest(reqid) ==
    /\ Quiet
    /\ reqid \in DOMAIN request
    /\ LET st == delete_request([project |-> project, request |-> request,
                                 infrastructure |-> infrastructure,
                                 request_infrastructure |-> request_infrastructure,
                                 learning |-> learning], reqid)
       IN /\ project' = st.project
          /\ request' = touch_order(st.request)
          /\ infrastructure' = st.infrastructure
          /\ request_infrastructure' = st.request_infrastructure
          /\ learning' = st.learning
    /\ UNCHANGED <<next_prjid, next_reqid, plan_md, rate_limited_for,
                   SDK_AVAILABLE, api_key, settings, status, pc, cur,
                   agent_result, success, stepbacks>>
    /\ UNCHANGED <<PID_FILE, procs>>

NextStore ==
    \/ \E p \in StoreProjectIds : CreateRequest(p, DEFAULT_PRIORITY, "plan", NoneInt)
    \/ \E p \in DOMAIN project : DeleteProject(p)
    \/ \E r \in DOMAIN request : DeleteRequest(r)

SpecStore == InitStore /\ [][NextStore]_vars

(***************************************************************************)
(* Two daemon instances on one store.  Each runs the loop of daemon.py     *)
(* 124-148 with process_request; every call of queries.py is a             *)
(* transaction of its own, so the instances interleave between the calls.  *)
(***************************************************************************)
Instances == {1, 2}

\* what the instances share and do not write in these steps
instance_frame == <<project, infrastructure, request_infrastructure, learning,
                    next_prjid, next_reqid, plan_md, rate_limited_for, SDK_AVAILABLE,
                    api_key, settings, status, pc, cur, agent_result, success,
                    stepbacks, PID_FILE>>

\* both instances at the top of their loop, in front of pending requests of
\* one project
InitInstances ==
    /\ project = create_project(<<>>, BENTWOOKIE_PROJECT_ID, NoneInt)
    /\ next_prjid = 2
    /\ \E n \in 1..MaxRequests :
          /\ next_reqid = n + 1
          /\ stepbacks = [r \in 1..n |-> 0]
          /\ \E ph \in [1..n -> {"plan", "document"}] :
                request = [r \in 1..n |->
                              create_request(<<>>, project, r, BENTWOOKIE_PROJECT_ID,
                                             "new_feature", STATUS_TBD, ph[r],
                                             DEFAULT_PRIORITY, NoneInt, r).request[r]]
    /\ infrastructure = <<>>
    /\ request_infrastructure = <<>>
    /\ learning = <<>>
    /\ plan_md = <<>>
    /\ rate_limited_for = 0
    /\ SDK_AVAILABLE = TRUE
    /\ settings = DEFAULT_SETTINGS
    /\ api_key = TRUE
    /\ status = DaemonStatus
    /\ pc = "init"
    /\ cur = NoRequest
    /\ agent_result = NoResult
    /\ success = None
    /\ PID_FILE = NoneInt
    /\ procs = [p \in Instances |-> [at |-> "loop", cur |-> NoRequest]]

\* daemon.py 124-135 in instance p
InstanceGetNext(p) ==
    /\ procs[p].at = "loop"
    /\ \E r \in get_next_request(request, project) :
          procs' = [procs EXCEPT ![p] =
                       [at |-> "selected",
                        cur |-> [reqid |-> r, prjid |-> request[r].prjid,
                                 reqphase |-> request[r].reqphase,
                                 reqtestretries |-> request[r].reqtestretries]]]
    /\ UNCHANGED <<request, instance_frame>>

\* faulty variant: the request is taken with a conditional update, and an
\* instance that finds it taken goes back to its loop
InstanceProcessStart_claims(p) ==
    /\ procs[p].at = "selected"
    /\ IF request[procs[p].cur.reqid].reqstatus = STATUS_TBD
       THEN /\ request' = touch_order(mark_wip(request, procs[p].cur.reqid,
                                               now_ts(request)))
            /\ procs' = [procs EXCEPT ![p].at = "await"]
       ELSE /\ request' = request
            /\ procs' = [procs EXCEPT ![p] = [at |-> "loop", cur |-> NoRequest]]
    /\ UNCHANGED instance_frame

\* processor.py 281-357 in instance p, up to the awaited agent call
InstanceProcessStart(p) ==
    /\ procs[p].at = "selected"
    /\ request' = touch_order(mark_wip(request, procs[p].cur.reqid, now_ts(request)))
    /\ procs' = [procs EXCEPT ![p].at = "await"]
    /\ UNCHANGED instance_frame

\* processor.py 357-422 and daemon.py 139-148 in instance p: the agent call
\* returns a response and the request moves on from the phase the instance
\* read when it selected it
InstanceFinishAdvance(p) ==
    /\ procs[p].at = "await"
    /\ LET c == procs[p].cur
           ts == now_ts(request)
           next_phase == get_next_phase(c.reqphase, c.reqid, request, infrastructure,
                                        request_infrastructure, settings)
       IN request' = touch_order(advance_phase(request, c.reqid, next_phase, ts))
    /\ procs' = [procs EXCEPT ![p] = [at |-> "loop", cur |-> NoRequest]]
    /\ UNCHANGED instance_frame

NextInstances ==
    \/ \E p \in Instances : InstanceGetNext(p)
    \/ \E p \in Instances : InstanceProcessStart(p)
    \/ \E p \in Instances : InstanceFinishAdvance(p)

SpecInstances == InitInstances /\ [][NextInstances]_vars

(***************************************************************************)
(* One command as the statements of its transaction: delete_project inside *)
(* "with get_db() as conn" (queries.py 173-179, connection.py 31-61).      *)
(* What the statements have done is held by the connection and reaches the *)
(* store when the block is left.                                           *)
(***************************************************************************)
\* the processes that run the command
Commands == {1}

NoTransaction == \A p \in Commands : procs[p].at # "get_db"

\* the store as the rows of its tables
StoreRows ==
    [project |-> project, request |-> request, infrastructure |-> infrastructure,
     request_infrastructure |-> request_infrastructure, learning |-> learning]

\* the k-th execute of queries.py 175-178; the rows of request_infrastructure
\* go with their requests (ON DELETE CASCADE of the schema)
delete_project_statement(st, prjid, k) ==
    LET KeepL(row) == row.prjid # prjid
        req == [r \in {x \in DOMAIN st.request : st.request[x].prjid # prjid}
                  |-> st.request[r]]
    IN CASE k = 1 -> [st EXCEPT !.learning = SelectSeq(st.learning, KeepL)]
         [] k = 2 -> [st EXCEPT !.infrastructure = SelectSeq(st.infrastructure, KeepL)]
         [] k = 3 -> [st EXCEPT !.request = req,
                                !.request_infrastructure =
                                   cascade_request_infrastructure(
                                      st.request_infrastructure, req)]
         [] k = 4 -> [st EXCEPT !.project =
                                   [q \in DOMAIN st.project \ {prjid} |-> st.project[q]]]

\* faulty variant: what was executed before the exception is committed
get_db_commits_on_exception(committed, conn, raised) == conn

\* connection.py 54-61: commit when the block ends, rollback when it raises
get_db(committed, conn, raised) == IF raised THEN committed ELSE conn

\* queries.py 173: the connection is opened
delete_project_enter(p, prjid) ==
    /\ Quiet
    /\ NoTransaction
    /\ procs' = [procs EXCEPT ![p] = [at |-> "get_db", prjid |-> prjid, done |-> 0,
                                      conn |-> StoreRows]]
    /\ UNCHANGED <<store, plan_md, rate_limited_for, SDK_AVAILABLE, api_key, settings,
                   status, pc, cur, agent_result, success, stepbacks, PID_FILE>>

\* queries.py 175-178: the next statement is executed on the connection
delete_project_execute(p) ==
    /\ procs[p].at = "get_db"
    /\ procs[p].done < 4
    /\ procs' = [procs EXCEPT ![p].done = @ + 1,
                              ![p].conn = delete_project_statement(
                                             @, procs[p].prjid, procs[p].done + 1)]
    /\ UNCHANGED <<store, plan_md, rate_limited_for, SDK_AVAILABLE, api_key, settings,
                   status, pc, cur, agent_result, success, stepbacks, PID_FILE>>

\* the block is left: after the last statement (queries.py 179), or by the
\* exception of the statement that was to run next (database locked, disk
\* full, I/O error), which get_db raises again to the caller
delete_project_exit(p, raised) ==
    /\ procs[p].at = "get_db"
    /\ raised <=> procs[p].done < 4
    /\ LET st == get_db(StoreRows, procs[p].conn, raised)
       IN /\ project' = st.project
          /\ request' = touch_order(st.request)
          /\ infrastructure' = st.infrastructure
          /\ request_infrastructure' = st.request_infrastructure
          /\ learning' = st.learning
    /\ procs' = [procs EXCEPT ![p].at = IF raised THEN "raised" ELSE "returned"]
    /\ UNCHANGED <<next_prjid, next_reqid, plan_md, rate_limited_for, SDK_AVAILABLE,
                   api_key, settings, status, pc, cur, agent_result, success,
                   stepbacks, PID_FILE>>

NextTransaction ==
    \/ \E p \in Commands, prjid \in DOMAIN project : delete_project_enter(p, prjid)
    \/ \E p \in Commands : delete_project_execute(p)
    \/ \E p \in Commands, raised \in BOOLEAN : delete_project_exit(p, raised)

SpecTransaction == InitStore /\ [][NextTransaction]_vars

(***************************************************************************)
(* Dispatches that fail terminally, of an operator's request and of a      *)
(* bug-fix request of the maintenance project.                             *)
(***************************************************************************)
\* outcomes of the agent call that end the dispatch in err or tmout
TerminalOutcomes ==
    {o \in AgentOutcomes :
        \/ o.kind = "timeout"
        \/ o.kind = "error" /\ ~ _is_rate_limit_error(o.msg)}

\* a running daemon in front of one request: an operator's request, or a
\* bug-fix request as _create_bugfix_request files it (processor.py 232-240),
\* in any phase that is dispatched, in an environment where the preconditions
\* of process_request hold or fail
InitEscalation ==
    /\ \E prj \in ErrorProjects, ph \in {"plan", "dev", "test", "deploy", "verify",
                                         "document", "commit"} :
          /\ project = prj
          /\ \/ request = create_request(<<>>, prj, 1, 2, "new_feature", STATUS_TBD,
                                         ph, DEFAULT_PRIORITY, NoneInt, 1).request
             \/ /\ fk_project(prj, BENTWOOKIE_PROJECT_ID)
                /\ request = update_request_phase(
                                _create_bugfix_request(<<>>, prj, 1, 1), 1, ph, 1)
    /\ infrastructure = <<>>
    /\ request_infrastructure = <<>>
    /\ learning = <<>>
    /\ next_prjid = 3
    /\ next_reqid = 2
    /\ plan_md = <<>>
    /\ rate_limited_for = 0
    /\ \E e \in Environments :
          /\ SDK_AVAILABLE = e[1]
          /\ settings = [DEFAULT_SETTINGS EXCEPT !.auth_mode = e[2]]
          /\ api_key = e[3]
    /\ status = [DaemonStatus EXCEPT !.running = TRUE]
    /\ pc = "loop"
    /\ cur = NoRequest
    /\ agent_result = NoResult
    /\ success = None
    /\ stepbacks = [r \in {1} |-> 0]
    /\ PID_FILE = NoneInt
    /\ procs = NoProcesses

NextEscalation ==
    \/ LoopGetNext
    \/ ProcessPreconditionFails
    \/ ProcessStart
    \/ \E o \in TerminalOutcomes : AgentReturns(o)
    \/ FinishTimeout
    \/ FinishError
    \/ LoopBookkeeping

SpecEscalation == InitEscalation /\ [][NextEscalation]_vars

(***************************************************************************)
(* A request that failed is put back in the queue by the operator and is   *)
(* dispatched again: every outcome of process_request on a store that      *)
(* holds error texts of earlier dispatches.                                *)
(***************************************************************************)
\* "bw request update <id> --status <status>" (cli.py 582-604) and the
\* /requests/<id>/update route (web/app.py 299-311): the status is written,
\* the error text of the request is left as it is; the command is a process
\* of its own and runs at any point of the daemon's loop (the number of
\* failure notes bounds how often it is issued)
request_update(request_id, st) ==
    /\ Len(learning) < MaxStoreRows
    /\ request_id \in DOMAIN request
    /\ st # request[request_id].reqstatus
    /\ request' = touch_order(update_request_status(request, request_id, st,
                                                    now_ts(request)))
    /\ UNCHANGED <<project, infrastructure, request_infrastructure, learning,
                   next_prjid, next_reqid, plan_md, rate_limited_for, SDK_AVAILABLE,
                   api_key, settings, status, pc, cur, agent_result, success, stepbacks>>
    /\ UNCHANGED <<PID_FILE, procs>>

NextRetry ==
    \/ LoopRateLimited
    \/ LoopGetNext
    \/ ProcessStart
    \/ \E o \in AgentOutcomes : AgentReturns(o)
    \/ FinishTimeout
    \/ FinishRateLimited
    \/ FinishError
    \/ FinishTestExhausted
    \/ FinishTestRetry
    \/ FinishAdvance
    \/ LoopBookkeeping
    \/ \E r \in DOMAIN request : request_update(r, STATUS_TBD)

SpecRetry == InitErrors /\ [][NextRetry]_vars

(***************************************************************************)
(* Properties.                                                             *)
(***************************************************************************)
\* the step on which process_request returns to the loop
DispatchEnds == pc \in {"selected", "returned"} /\ pc' = "done"

\* the agent call succeeded and, in phase test, reported no failing test
AgentSucceeded ==
    /\ pc = "returned"
    /\ agent_result.kind = "ok"
    /\ cur.reqphase = "test" => ~ (agent_result.found /\ agent_result.error_count > 0)

\* the agent call in phase test reported failing tests
TestsFailing ==
    /\ pc = "returned"
    /\ agent_result.kind = "ok"
    /\ cur.reqphase = "test"
    /\ agent_result.found
    /\ agent_result.error_count > 0

\* requests created by the step
NewRequests == DOMAIN request' \ DOMAIN request

\* the dispatched request ends the step the way the phase-advancement rule says
AdvancedAsRuled ==
    LET np == get_next_phase(cur.reqphase, cur.reqid, request, infrastructure,
                             request_infrastructure, settings)
    IN IF np = "complete"
       THEN /\ request'[cur.reqid].reqphase = "complete"
            /\ request'[cur.reqid].reqstatus = STATUS_DONE
       ELSE /\ request'[cur.reqid].reqphase = np
            /\ request'[cur.reqid].reqstatus = STATUS_TBD

\* the step filed one bug-fix request as Escalation does
OneBugfixFiled ==
    /\ Cardinality(NewRequests) = 1
    /\ \A b \in NewRequests :
          /\ request'[b].prjid = BENTWOOKIE_PROJECT_ID
          /\ request'[b].reqtype = "bug_fix"
          /\ request'[b].reqphase = "plan"
          /\ request'[b].reqstatus = STATUS_TBD
          /\ request'[b].reqpriority < DEFAULT_PRIORITY

\* the dispatch ended in a terminal failure
TerminalFailure == request'[cur.reqid].reqstatus \in {STATUS_ERR, STATUS_TMOUT}

\* C1: every dispatch takes a tbd request that no other tbd request precedes in
\* (priority number, touched timestamp) order; with no tbd request nothing is
\* dispatched and the store is left alone.
C1_DispatchesNextRequest ==
    [][pc = "loop" =>
         /\ pc' = "selected" =>
               /\ cur'.reqid \in DOMAIN request
               /\ request[cur'.reqid].reqstatus = STATUS_TBD
               /\ \A o \in DOMAIN request :
                     request[o].reqstatus = STATUS_TBD =>
                        \/ request[cur'.reqid].reqpriority < request[o].reqpriority
                        \/ /\ request[cur'.reqid].reqpriority = request[o].reqpriority
                           /\ request[cur'.reqid].reqtouchts <= request[o].reqtouchts
         /\ (\A r \in DOMAIN request : request[r].reqstatus # STATUS_TBD) =>
               (pc' = "loop" /\ request' = request)]_vars

\* a dispatch picked the more urgent request although another tbd request is older
C1_Witness ==
    /\ pc = "selected"
    /\ \E o \in DOMAIN request :
          /\ request[o].reqstatus = STATUS_TBD
          /\ request[o].reqpriority > request[cur.reqid].reqpriority
          /\ request[o].reqtouchts < request[cur.reqid].reqtouchts

\* C2: after a successful agent call (tests passing in phase test) the request ends
\* with phase complete and status done when next_phase is complete, and otherwise
\* with phase next_phase and status tbd; process_request returns success.
C2_SuccessAdvances ==
    [][(AgentSucceeded /\ pc' = "done") => (AdvancedAsRuled /\ success' = TRUE)]_vars

\* a dispatch of the last phase closed its request
C2_Witness ==
    /\ pc = "done"
    /\ success = TRUE
    /\ cur.reqphase = "commit"
    /\ request[cur.reqid].reqphase = "complete"
    /\ request[cur.reqid].reqstatus = STATUS_DONE

\* C3: every change of a request's phase goes to a strictly later phase of the
\* order plan .. complete, or from test back to dev.
C3_PhasesInOrder ==
    [][\A r \in DOMAIN request \cap DOMAIN request' :
          request'[r].reqphase # request[r].reqphase =>
             \/ PHASE_ORDER(request'[r].reqphase) > PHASE_ORDER(request[r].reqphase)
             \/ (request[r].reqphase = "test" /\ request'[r].reqphase = "dev")]_vars

\* a request went back to dev, later skipped deploy and verify, and completed
C3_Witness ==
    \E r \in DOMAIN request :
       /\ stepbacks[r] > 0
       /\ request[r].reqphase = "complete"
       /\ get_project_infrastructure(infrastructure, request[r].prjid) = <<>>

\* C4: failing tests below the retry cap send the request to dev with status tbd
\* and one more retry counted, rewrite the fix plan, and record no error, no
\* Learning note and no bug-fix request.
C4_TestFailureRetries ==
    [][(TestsFailing /\ cur.reqtestretries < MAX_TEST_RETRIES /\ pc' = "done") =>
         /\ request'[cur.reqid].reqphase = "dev"
         /\ request'[cur.reqid].reqstatus = STATUS_TBD
         /\ request'[cur.reqid].reqtestretries = request[cur.reqid].reqtestretries + 1
         /\ request'[cur.reqid].reqerror = NoError
         /\ cur.prjid \in DOMAIN plan_md'
         /\ plan_md'[cur.prjid].error_count = agent_result.error_count
         /\ learning' = learning
         /\ NewRequests = {}
         /\ success' = TRUE]_vars

\* the scenario of the specification: retries 0, two failing tests
C4_Witness ==
    /\ pc = "done"
    /\ cur.reqphase = "test"
    /\ cur.reqtestretries = 0
    /\ request[cur.reqid].reqphase = "dev"
    /\ request[cur.reqid].reqtestretries = 1
    /\ cur.prjid \in DOMAIN plan_md

\* C5: failing tests at the retry cap end the request in err with the
\* max-retries error text and the failure count, retries and phase as they
\* were, one Learning note for its project, an Escalation, and a failure result.
C5_TestRetriesExhausted ==
    [][(TestsFailing /\ cur.reqtestretries = MAX_TEST_RETRIES /\ pc' = "done") =>
         /\ request'[cur.reqid].reqstatus = STATUS_ERR
         /\ request'[cur.reqid].reqerror =
               ErrorText("Max test retries exceeded", None,
                         agent_result.error_count, <<>>)
         /\ request'[cur.reqid].reqtestretries = request[cur.reqid].reqtestretries
         /\ request'[cur.reqid].reqphase = request[cur.reqid].reqphase
         /\ Len(learning') = Len(learning) + 1
         /\ learning'[Len(learning')].prjid = cur.prjid
         /\ fk_project(project, BENTWOOKIE_PROJECT_ID) => OneBugfixFiled
         /\ success' = FALSE]_vars

\* a fourth failing test run ended its request
C5_Witness ==
    /\ pc = "done"
    /\ success = FALSE
    /\ cur.reqtestretries = MAX_TEST_RETRIES
    /\ request[cur.reqid].reqerror.text = "Max test retries exceeded"
    /\ Len(learning) > 0

\* C6: no request is sent back from test to dev more than 3 times, and no retry
\* counter exceeds 3 or the number of step-backs taken.
C6_CycleBounded ==
    \A r \in DOMAIN request :
       /\ stepbacks[r] <= MAX_TEST_RETRIES
       /\ request[r].reqtestretries <= MAX_TEST_RETRIES
       /\ request[r].reqtestretries <= stepbacks[r]

\* a request used all three step-backs and then failed for good in phase test
C6_Witness ==
    \E r \in DOMAIN request :
       /\ stepbacks[r] = MAX_TEST_RETRIES
       /\ request[r].reqphase = "test"
       /\ request[r].reqstatus = STATUS_ERR

\* C7: a test dispatch without failing tests leaves the retry counter at 0 and
\* advances the request by the phase-advancement rule.
C7_CleanPassResets ==
    [][(AgentSucceeded /\ cur.reqphase = "test" /\ pc' = "done") =>
         /\ request'[cur.reqid].reqtestretries = 0
         /\ AdvancedAsRuled
         /\ success' = TRUE]_vars

\* a clean pass came after earlier failures
C7_Witness ==
    /\ pc = "done"
    /\ cur.reqphase = "test"
    /\ cur.reqtestretries > 0
    /\ request[cur.reqid].reqtestretries = 0
    /\ request[cur.reqid].reqphase \in {"deploy", "document"}

C9_DispatchLeavesNoWip ==
    [][DispatchEnds =>
         /\ request'[cur.reqid].reqstatus \in
               {STATUS_TBD, STATUS_DONE, STATUS_ERR, STATUS_TMOUT}
         /\ \A r \in DOMAIN request' : request'[r].reqstatus # STATUS_WIP
         /\ success' \in BOOLEAN]_vars

\* a dispatch that timed out is over
C9_Witness ==
    /\ pc = "done"
    /\ success = FALSE
    /\ request[cur.reqid].reqstatus = STATUS_TMOUT

\* C10: a rate-limit error from the agent call leaves the request tbd with its
\* phase and retry counter as they were and no error text, and creates neither
\* a Learning note nor a bug-fix request.
C10_RateLimitRequeues ==
    [][(pc = "returned" /\ agent_result.kind = "error"
        /\ _is_rate_limit_error(agent_result.msg) /\ pc' = "done") =>
         /\ request'[cur.reqid].reqstatus = STATUS_TBD
         /\ request'[cur.reqid].reqphase = request[cur.reqid].reqphase
         /\ request'[cur.reqid].reqtestretries = request[cur.reqid].reqtestretries
         /\ request'[cur.reqid].reqerror = NoError
         /\ learning' = learning
         /\ NewRequests = {}]_vars

\* a rate-limit error requeued a request that had test retries counted
C10_Witness ==
    /\ pc = "done"
    /\ success = FALSE
    /\ rate_limited_for = INITIAL_BACKOFF
    /\ request[cur.reqid].reqstatus = STATUS_TBD
    /\ request[cur.reqid].reqtestretries > 0

\* a precondition of process_request does not hold
PreconditionFails ==
    \/ ~ SDK_AVAILABLE
    \/ (get_auth_mode(settings) = AUTH_MODE_API /\ ~ api_key)

\* the dispatch is about to end in a terminal failure
TerminalOutcome ==
    \/ (pc = "selected" /\ PreconditionFails)
    \/ /\ pc = "returned"
       /\ \/ agent_result.kind = "timeout"
          \/ (agent_result.kind = "error" /\ ~ _is_rate_limit_error(agent_result.msg))
          \/ (TestsFailing /\ cur.reqtestretries >= MAX_TEST_RETRIES)

\* the step marks no request wip
NoNewWip ==
    \A r \in DOMAIN request' :
       request'[r].reqstatus = STATUS_WIP =>
          (r \in DOMAIN request /\ request[r].reqstatus = STATUS_WIP)

\* C11: a classified rate-limit error opens the fixed cooldown; while it runs
\* is_rate_limited is true, the daemon selects nothing and marks nothing wip and
\* the window only runs down; once it is over is_rate_limited is false and the
\* next step of the loop dispatches a pending request.
C11_CooldownSuppressesDispatch ==
    [][/\ (pc = "returned" /\ agent_result.kind = "error"
           /\ _is_rate_limit_error(agent_result.msg) /\ pc' = "done") =>
             rate_limited_for' = INITIAL_BACKOFF
       /\ is_rate_limited = (rate_limited_for > 0)
       /\ rate_limited_for > 0 =>
             /\ pc' # "selected"
             /\ NoNewWip
             /\ rate_limited_for' <= rate_limited_for
       /\ (/\ rate_limited_for = 0
           /\ pc = "loop"
           /\ \E r \in DOMAIN request : request[r].reqstatus = STATUS_TBD) =>
             pc' = "selected"]_vars

\* half of the cooldown has run and a request is waiting
C11_Witness ==
    /\ pc = "loop"
    /\ rate_limited_for > 0
    /\ rate_limited_for < INITIAL_BACKOFF
    /\ \E r \in DOMAIN request : request[r].reqstatus = STATUS_TBD

\* C12: at most one request is wip, and a request is wip only while the daemon
\* is inside the dispatch of that request.
C12_OneWipWhileDispatched ==
    /\ Cardinality({r \in DOMAIN request : request[r].reqstatus = STATUS_WIP}) <= 1
    /\ \A r \in DOMAIN request :
          request[r].reqstatus = STATUS_WIP =>
             /\ pc \in {"await", "returned"}
             /\ cur.reqid = r
             /\ status.current_request_id = r

\* a request is wip while another one waits
C12_Witness ==
    /\ pc = "await"
    /\ request[cur.reqid].reqstatus = STATUS_WIP
    /\ \E o \in DOMAIN request : o # cur.reqid /\ request[o].reqstatus = STATUS_TBD

\* C13: a timed-out agent call ends the request in tmout with an error text that
\* names its phase, the phase unchanged, Escalation run and failure returned;
\* a request in tmout stays in tmout and is never selected.
C13_TimeoutIsTerminal ==
    [][/\ (pc = "returned" /\ agent_result.kind = "timeout" /\ pc' = "done") =>
             /\ request'[cur.reqid].reqstatus = STATUS_TMOUT
             /\ request'[cur.reqid].reqerror.text = "Timed out in phase"
             /\ request'[cur.reqid].reqerror.phase = request[cur.reqid].reqphase
             /\ request'[cur.reqid].reqphase = request[cur.reqid].reqphase
             /\ fk_project(project, BENTWOOKIE_PROJECT_ID) => OneBugfixFiled
             /\ success' = FALSE
       /\ \A r \in DOMAIN request \cap DOMAIN request' :
             request[r].reqstatus = STATUS_TMOUT =>
                /\ request'[r].reqstatus = STATUS_TMOUT
                /\ (pc = "loop" /\ pc' = "selected") => cur'.reqid # r]_vars

\* the daemon went on to another request after one timed out
C13_Witness ==
    /\ pc = "selected"
    /\ \E r \in DOMAIN request :
          /\ r # cur.reqid
          /\ request[r].reqstatus = STATUS_TMOUT
          /\ request[r].reqerror.phase = request[r].reqphase

\* C14: when a precondition fails the dispatch ends without the agent call, with
\* the request in err, the error text recorded, the phase unchanged, Escalation
\* run and failure returned.
C14_PreconditionFailure ==
    [][(pc = "selected" /\ PreconditionFails) =>
          /\ pc' = "done"
          /\ agent_result' = NoResult
          /\ request'[cur.reqid].reqstatus = STATUS_ERR
          /\ request'[cur.reqid].reqerror # NoError
          /\ request'[cur.reqid].reqphase = request[cur.reqid].reqphase
          /\ fk_project(project, BENTWOOKIE_PROJECT_ID) => OneBugfixFiled
          /\ success' = FALSE]_vars

\* auth mode api without a key failed a dispatch
C14_Witness ==
    /\ pc = "done"
    /\ success = FALSE
    /\ get_auth_mode(settings) = AUTH_MODE_API
    /\ request[cur.reqid].reqerror.text = "ANTHROPIC_API_KEY not set"

\* C16: when the maintenance project does not exist, a terminal failure still
\* ends with the terminal status and the error text recorded, no request
\* created, and failure returned.
C16_EscalationBestEffort ==
    [][(TerminalOutcome /\ ~ fk_project(project, BENTWOOKIE_PROJECT_ID)) =>
          /\ pc' = "done"
          /\ request'[cur.reqid].reqstatus \in {STATUS_ERR, STATUS_TMOUT}
          /\ request'[cur.reqid].reqerror # NoError
          /\ NewRequests = {}
          /\ success' = FALSE]_vars

\* an agent error was recorded although its bug-fix request was rejected
C16_Witness ==
    /\ pc = "done"
    /\ success = FALSE
    /\ ~ fk_project(project, BENTWOOKIE_PROJECT_ID)
    /\ request[cur.reqid].reqstatus = STATUS_ERR
    /\ request[cur.reqid].reqerror.text = "Error in phase"
    /\ \A b \in DOMAIN request : request[b].reqtype # "bug_fix"

\* the user-facing categories, told apart by the recorded text
ErrorCategories ==
    {"Insufficient credits", "Claude CLI returned an error", "Authentication error",
     "Error in phase"}

\* C15: an agent error that is not a rate-limit error ends the dispatch, in
\* whichever category its text falls, with status err, a non-empty error text,
\* the phase unchanged, one Learning note appended for the owning project,
\* Escalation run, no cooldown opened, and failure returned.
C15_ErrorCategoryOnlyChangesText ==
    [][(/\ pc = "returned"
        /\ agent_result.kind = "error"
        /\ ~ _is_rate_limit_error(agent_result.msg)) =>
          /\ pc' = "done"
          /\ request'[cur.reqid].reqstatus = STATUS_ERR
          /\ request'[cur.reqid].reqerror # NoError
          /\ request'[cur.reqid].reqerror.text \in ErrorCategories
          /\ request'[cur.reqid].reqphase = request[cur.reqid].reqphase
          /\ Len(learning') = Len(learning) + 1
          /\ SubSeq(learning', 1, Len(learning)) = learning
          /\ learning'[Len(learning')].prjid = request[cur.reqid].prjid
          /\ fk_project(project, BENTWOOKIE_PROJECT_ID) => OneBugfixFiled
          /\ rate_limited_for' = rate_limited_for
          /\ success' = FALSE]_vars

\* a credits error ended a dispatch the same way as the other categories do
C15_Witness ==
    /\ pc = "done"
    /\ success = FALSE
    /\ request[cur.reqid].reqstatus = STATUS_ERR
    /\ request[cur.reqid].reqerror.text = "Insufficient credits"
    /\ Len(learning) = 1
    /\ \E b \in DOMAIN request : request[b].reqtype = "bug_fix"

\* next_phase of the phase engine for a stored request
next_phase(P, r) ==
    get_next_phase(P, r, request, infrastructure, request_infrastructure, settings)

\* the phase after P in the fixed order
Successor(P) == PHASES[PHASE_ORDER(P) + 2]

\* every entry of the request's effective infrastructure names provider local
EveryEntryLocal(r) ==
    LET eff == get_effective_infrastructure(request, infrastructure,
                                            request_infrastructure, r)
    IN \A i \in 1..Len(eff) : Lower(eff[i].infprovider) = "local"

\* the request's own compute override names a provider other than local
NonLocalComputeOverride(r) ==
    LET ri == get_request_infrastructure(request_infrastructure, r)
    IN \E i \in 1..Len(ri) :
          /\ ri[i].inftype = "compute"
          /\ \A j \in (i + 1)..Len(ri) : ri[j].inftype # "compute"
          /\ Lower(ri[i].infprovider) # "local"

\* the last dispatch took the request from phase P to phase Q
Advanced(P, Q) ==
    /\ pc = "done"
    /\ success = TRUE
    /\ cur.reqphase = P
    /\ request[cur.reqid].reqphase = Q

\* C17: for a request whose effective infrastructure is empty or names only
\* provider local, next_phase from test and next_phase from deploy are both
\* document.
C17_LocalOnlySkipsDeployVerify ==
    \A r \in DOMAIN request :
       EveryEntryLocal(r) =>
          /\ next_phase("test", r) = "document"
          /\ next_phase("deploy", r) = "document"

\* a request without any infrastructure went from test straight to document
C17_Witness ==
    /\ Advanced("test", "document")
    /\ infrastructure = <<>>
    /\ request_infrastructure = <<>>

\* C18: for a request whose own compute override names a provider other than
\* local, whatever the override's value, next_phase from test is deploy and
\* next_phase from deploy is verify.
C18_NonLocalComputeNeverSkipped ==
    \A r \in DOMAIN request :
       NonLocalComputeOverride(r) =>
          /\ next_phase("test", r) = "deploy"
          /\ next_phase("deploy", r) = "verify"

\* a request with a non-local compute override went from test to document
C18_Witness ==
    /\ Advanced("test", "document")
    /\ NonLocalComputeOverride(cur.reqid)

C20_RequestCommitOverrideDecides ==
    \A r \in DOMAIN request :
       /\ request[r].reqcommitenabled = 0 => next_phase("document", r) = "complete"
       /\ request[r].reqcommitenabled = 2 => next_phase("document", r) = "commit"

\* a forced commit went ahead against a project override and a global default
\* that both disable it
C20_Witness ==
    /\ Advanced("document", "commit")
    /\ request[cur.reqid].reqcommitenabled = 2
    /\ project[cur.prjid].prjcommitenabled = 0
    /\ ~ get_commit_enabled(settings)

\* C21: from document, for a request without a commit override, a project
\* override of 0 makes next_phase complete and a project override of 1 makes it
\* commit whatever the global default is, and only a project without an override
\* leaves the decision to the global default.
C21_ProjectCommitOverrideDecides ==
    \A r \in DOMAIN request :
       request[r].reqcommitenabled = NoneInt =>
          LET prjcommitenabled == project[request[r].prjid].prjcommitenabled
          IN /\ prjcommitenabled = 0 => next_phase("document", r) = "complete"
             /\ prjcommitenabled = 1 => next_phase("document", r) = "commit"
             /\ prjcommitenabled = NoneInt =>
                   next_phase("document", r) =
                      IF get_commit_enabled(settings) THEN "commit" ELSE "complete"

\* a request without an override went on to commit in a project that disables it
C21_Witness ==
    /\ Advanced("document", "commit")
    /\ request[cur.reqid].reqcommitenabled = NoneInt
    /\ project[cur.prjid].prjcommitenabled = 0

LastOfType(rows, t) ==
    rows[CHOOSE i \in 1..Len(rows) :
            /\ rows[i].inftype = t
            /\ \A j \in (i + 1)..Len(rows) : rows[j].inftype # t]

\* the infrastructure types that occur in rows
TypesOf(rows) == {rows[i].inftype : i \in 1..Len(rows)}

CleanLocalRun ==
    /\ pc \notin {"init", "done"}
    /\ is_local_only(request, infrastructure, request_infrastructure, 1)
    /\ "commit_enabled" \notin DOMAIN settings
    /\ status.errors_count = 0
    /\ stepbacks[1] = 0

\* the phases of a local-only request in the order of its successful dispatches
LocalPhases == <<"plan", "dev", "test", "document", "commit", "complete">>

ExceptionHandled ==
    /\ pc \in {"loop", "selected", "returned"}
    /\ pc' = "loop"
    /\ status'.iteration_count = status.iteration_count
    /\ status'.errors_count # status.errors_count

\* C25: an unexpected exception in the body of a loop iteration adds one to the
\* error counter and leaves the daemon running at the next iteration with the
\* store as it was; the loop ends only on a stop signal or at the iteration
\* limit, and a dispatch is left only by its own end or by such an exception.
C25_LoopSurvivesExceptions ==
    [][/\ ExceptionHandled =>
             /\ status'.errors_count = status.errors_count + 1
             /\ status'.running = status.running
             /\ UNCHANGED <<store, settings>>
       /\ pc' = "stopped" =>
             /\ pc \in {"loop", "stopped"}
             /\ ~ status.running \/ max_iterations_reached(status, settings)
       /\ (pc \in {"selected", "returned"} /\ pc' = "loop") => ExceptionHandled]_vars

\* after an exception that was counted the loop dispatches a request
C25_Witness ==
    /\ pc = "selected"
    /\ status.running
    /\ status.errors_count = 1
    /\ status.iteration_count = 0

Dispatches ==
    status.iteration_count + IF pc \in {"selected", "await", "returned", "done"} THEN 1 ELSE 0

C28_StopIsCooperative ==
    [][/\ (status.running /\ ~ status'.running) => UNCHANGED <<pc, store, cur>>
       /\ pc' = "stopped" => pc \in {"loop", "stopped"}
       /\ (pc # "init" /\ ~ status.running) =>
             /\ NoNewWip
             /\ pc = "await" => pc' \in {"await", "returned"}
             /\ pc = "returned" =>
                   \/ /\ pc' = "done"
                      /\ request'[cur.reqid].reqstatus # STATUS_WIP
                   \/ ExceptionHandled
                   \/ UNCHANGED <<pc, request>>
             /\ pc = "done" =>
                   \/ /\ pc' = "loop"
                      /\ status'.iteration_count = status.iteration_count + 1
                   \/ UNCHANGED <<pc, request, status>>
             /\ pc = "loop" =>
                   /\ pc' \in {"loop", "stopped"}
                   /\ request' = request
                   /\ pc' = "loop" => settings' # settings
             /\ status'.running = status.running]_vars

\* the signal arrived during a dispatch, which then ended with its outcome
C28_Witness ==
    /\ pc = "done"
    /\ ~ status.running
    /\ success = TRUE
    /\ request[cur.reqid].reqstatus = STATUS_TBD
    /\ request[cur.reqid].reqphase = "dev"

\* a request that has not reached done, err or tmout
Unfinished(r) ==
    request[r].reqstatus \notin {STATUS_DONE, STATUS_ERR, STATUS_TMOUT}

\* C29: a daemon that runs on the store, is not held back by a pause, the
\* iteration limit or a cooldown and finds nothing to dispatch has no unfinished
\* request in front of it: every request that has not reached done, err or
\* tmout is one the selection returns sooner or later, also after the process
\* stopped and a new one was started.
C29_UnfinishedRequestsDispatchedAgain ==
    (DaemonLoopReady /\ get_next_request(request, project) = {}) =>
       \A r \in DOMAIN request : ~ Unfinished(r)

\* a new process selects the request in the phase the process before it had
\* persisted
C29_Witness ==
    /\ pc = "selected"
    /\ status.iteration_count = 0
    /\ status.requests_processed = 0
    /\ cur.reqid = 1
    /\ cur.reqphase = "test"
    /\ request[1].reqphase = "test"

\* the daemon instances in their loop with the running flag set
RunningInstances == {p \in Pids : procs[p].at = "running"}

\* C30: under any interleaving of start and stop calls at most one daemon
\* instance runs against the PID marker at a time.
C30_AtMostOneInstance == Cardinality(RunningInstances) <= 1

\* a start was refused because the marker names a running daemon
C30_Witness ==
    \E p, q \in Pids :
       /\ procs[p].at = "refused"
       /\ procs[q].at = "running"
       /\ PID_FILE = q

\* the project the step deletes
Deleted(p) == p \in DOMAIN project /\ p \notin DOMAIN project'

\* the requests of project p
RequestsOf(p) == {r \in DOMAIN request : request[r].prjid = p}

\* the rows of a table that satisfy a condition, in their order
RowsWhere(rows, Cond(_)) == SelectSeq(rows, Cond)

\* the requests outside R carry what they carried, in the same order of touch
RequestsKept(R) ==
    /\ DOMAIN request' = DOMAIN request \ R
    /\ \A r \in DOMAIN request' :
          [request'[r] EXCEPT !.reqtouchts = 0] = [request[r] EXCEPT !.reqtouchts = 0]
    /\ \A r, o \in DOMAIN request' :
          (request'[r].reqtouchts <= request'[o].reqtouchts)
             <=> (request[r].reqtouchts <= request[o].reqtouchts)

C32_DeleteRequestFrame ==
    [][\A r \in DOMAIN request :
          (r \notin DOMAIN request' /\ DOMAIN project' = DOMAIN project) =>
             LET NotOf(row) == row.reqid # r
             IN /\ RequestsKept({r})
                /\ request_infrastructure' = RowsWhere(request_infrastructure, NotOf)
                /\ project' = project
                /\ infrastructure' = infrastructure
                /\ learning' = learning]_vars

\* request 2 of project 2 was deleted; request 1 of the same project keeps its
\* two overrides, the project its infrastructure row and its learning
C32_Witness ==
    /\ DOMAIN project = {1, 2}
    /\ next_reqid = 3
    /\ DOMAIN request = {1} /\ request[1].prjid = 2
    /\ Len(request_infrastructure) = 2
    /\ Len(infrastructure) = 1 /\ infrastructure[1].prjid = 2
    /\ Len(learning) = 1 /\ learning[1].prjid = 2

\* C33: every request names an existing project; creating a request for a
\* project id that names none is refused and leaves the requests as they are,
\* and so does the creation of the bug-fix request when the maintenance project
\* does not exist.
C33_RequestsReferenceProjects ==
    /\ \A r \in DOMAIN request : request[r].prjid \in DOMAIN project
    /\ \A p \in StoreProjectIds \ DOMAIN project :
          LET res == create_request(request, project, next_reqid, p, "new_feature",
                                    STATUS_TBD, "plan", DEFAULT_PRIORITY, NoneInt,
                                    current_timestamp(request))
          IN ~ res.ok /\ res.request = request
    /\ BENTWOOKIE_PROJECT_ID \notin DOMAIN project =>
          _create_bugfix_request(request, project, next_reqid, now_ts(request)) = request

\* a dispatch failed terminally while the maintenance project did not exist:
\* the failure is recorded and no request was added
C33_Witness ==
    /\ pc = "done"
    /\ success = FALSE
    /\ BENTWOOKIE_PROJECT_ID \notin DOMAIN project
    /\ DOMAIN request = {1, 2}
    /\ next_reqid = 3
    /\ request[cur.reqid].reqstatus = STATUS_ERR

\* get_next_phase(P) called without a request id
next_phase_without_id(P) ==
    get_next_phase(P, NoneInt, request, infrastructure, request_infrastructure, settings)

BothDispatch(p, q, r) ==
    /\ p # q
    /\ procs[p].at = "await" /\ procs[p].cur.reqid = r
    /\ procs[q].at = "await" /\ procs[q].cur.reqid = r

\* C35: selecting a request takes nothing: the step in which an instance
\* selects a request writes nothing, so the same request is what the selection
\* returns to the other instance; and the marking goes through whatever the
\* status of the request has become, so an instance always enters the agent
\* call with the request it selected.
C35_SelectionClaimsNothing ==
    [][\A p \in Instances :
          /\ (procs[p].at = "loop" /\ procs'[p].at = "selected") =>
                /\ request' = request
                /\ procs'[p].cur.reqid \in get_next_request(request', project')
          /\ (procs[p].at = "selected" /\ procs'[p] # procs[p]) =>
                /\ procs'[p].at = "await"
                /\ procs'[p].cur.reqid = procs[p].cur.reqid
                /\ request'[procs[p].cur.reqid].reqstatus = STATUS_WIP]_vars

\* one request is in the agent call of both instances at once
C35_Witness == \E p, q \in Instances : \E r \in DOMAIN request : BothDispatch(p, q, r)

(***************************************************************************)
(* C36: the step that marks the dispatched request wip clears its error    *)
(* text (a failing precondition then writes its own text with status err); *)
(* a dispatch that ends with the request tbd or done ends with no error    *)
(* text on it; and no step of the daemon leaves a request with an error    *)
(* text and a status other than err or tmout unless the request had that   *)
(* text and that status before the step.                                   *)
(***************************************************************************)
\* the request carries an error text that its status does not account for
ErrorTextUnaccounted(req, r) ==
    req[r].reqerror # NoError /\ req[r].reqstatus \notin {STATUS_ERR, STATUS_TMOUT}

C36_ErrorTextOnlyWithFailure ==
    [][(pc' # pc) =>
          /\ (pc = "selected" /\ request' # request) =>
                \/ /\ pc' = "await"
                   /\ request'[cur.reqid].reqstatus = STATUS_WIP
                   /\ request'[cur.reqid].reqerror = NoError
                \/ /\ pc' = "done"
                   /\ request'[cur.reqid].reqstatus = STATUS_ERR
                   /\ request'[cur.reqid].reqerror = PreconditionError
          /\ DispatchEnds =>
                (request'[cur.reqid].reqstatus \in {STATUS_TBD, STATUS_DONE}
                    => request'[cur.reqid].reqerror = NoError)
          /\ \A r \in DOMAIN request' :
                ErrorTextUnaccounted(request', r) =>
                   /\ r \in DOMAIN request
                   /\ request[r].reqerror = request'[r].reqerror
                   /\ request[r].reqstatus = request'[r].reqstatus]_vars

\* the request failed and kept its error text when the operator put it back
\* in the queue, and the dispatch that followed ended tbd or done without text
C36_Witness ==
    /\ pc = "done"
    /\ cur.reqid = 1
    /\ Len(learning) > 0
    /\ request[1].reqstatus \in {STATUS_TBD, STATUS_DONE}
    /\ request[1].reqerror = NoError

InDispatch(at) == at \in {"selected", "await", "returned"}

DoneIffComplete(req) ==
    \A r \in DOMAIN req : req[r].reqstatus = STATUS_DONE <=> req[r].reqphase = "complete"

\* the row without its place in the order of touched timestamps
Untouched(row) == [row EXCEPT !.reqtouchts = 0]

C38_DoneIsFinal ==
    [][/\ ~ InDispatch(pc) => DoneIffComplete(request)
       /\ ~ InDispatch(pc') => DoneIffComplete(request')
       /\ \A r \in DOMAIN request :
             request[r].reqstatus = STATUS_DONE =>
                /\ r \in DOMAIN request'
                /\ Untouched(request'[r]) = Untouched(request[r])
                /\ pc' = "selected" => cur'.reqid # r]_vars

\* a request is done and complete while the daemon dispatches another one
C38_Witness ==
    \E r \in DOMAIN request :
       /\ request[r].reqstatus = STATUS_DONE
       /\ request[r].reqphase = "complete"
       /\ pc = "returned"
       /\ cur.reqid # r

(***************************************************************************)
(* C39: a step that writes the status or the phase of a request leaves it  *)
(* with the latest touched timestamp of the requests that were there; so   *)
(* when a dispatch ends with its request tbd again (phase advanced, test   *)
(* retry, rate limit), every other request of the same priority that was   *)
(* waiting as tbd has an older timestamp, and if one of them can be        *)
(* selected the request just dispatched is not the next selection.         *)
(***************************************************************************)
\* another request of the priority of r that was waiting before the step
WaitingBeside(r, o) ==
    /\ o # r
    /\ request[o].reqstatus = STATUS_TBD
    /\ request[o].reqpriority = request[r].reqpriority

Pending(req, at, taken) ==
    {r \in DOMAIN req : req[r].reqstatus = STATUS_TBD}
       \cup (IF InDispatch(at) THEN {taken.reqid} \cap DOMAIN req ELSE {})

C40_FailuresKeepQueueFull ==
    [][(DispatchEnds /\ TerminalFailure
          /\ fk_project(project, BENTWOOKIE_PROJECT_ID)) =>
             /\ OneBugfixFiled
             /\ request[cur.reqid].reqtype = "bug_fix" => NewRequests # {}
             /\ Cardinality(Pending(request', pc', cur'))
                   = Cardinality(Pending(request, pc, cur))
             /\ get_next_request(request', project') # {}]_vars

\* the dispatch of a bug-fix request has failed and a further bug-fix request
\* is waiting
C40_Witness ==
    /\ pc = "done"
    /\ request[cur.reqid].reqtype = "bug_fix"
    /\ request[cur.reqid].reqstatus \in {STATUS_ERR, STATUS_TMOUT}
    /\ \E b \in DOMAIN request \ {cur.reqid} :
          /\ request[b].reqtype = "bug_fix"
          /\ request[b].reqstatus = STATUS_TBD
          /\ b \in get_next_request(request, project)

====
